---- MODULE Spec2Model ----
(***************************************************************************)
(* Model of the performance-profiling command-line tools:                  *)
(*   timing_analyzer.py, scaling_analyzer.py, memory_profiler.py and       *)
(*   bottleneck_detector.py.                                               *)
(*                                                                         *)
(* Every tool is a single-pass program: main() loads its input, calls the  *)
(* pure functions of the script and prints a report.  Each main() is       *)
(* modelled as a short sequence of steps (one per call it makes), the pure *)
(* functions as operators.                                                 *)
(*                                                                         *)
(* Numbers.  The scripts compute with Python floats (binary floating       *)
(* point, round-to-nearest, ties-to-even).  A float is modelled as a       *)
(* record [m, e] standing for m * 2^e with a mantissa of Precision bits    *)
(* (2^(Precision-1) <= m < 2^Precision, or m = 0), every arithmetic        *)
(* operation rounding its exact result to the nearest such value.  The     *)
(* exponent is unbounded: no overflow and no underflow, as for the         *)
(* magnitudes these tools handle.                                          *)
(***************************************************************************)
EXTENDS Integers, Sequences, FiniteSets, TLC

\* ------------------------------------------------------------------------
\* Bounds of the model
\* ------------------------------------------------------------------------

\* Mantissa width of the modelled binary floating point (Python: 53).
Precision == 6

\* ------------------------------------------------------------------------
\* Generic helpers
\* ------------------------------------------------------------------------

Null == "None"

RECURSIVE Pow2(_)
Pow2(k) == IF k <= 0 THEN 1 ELSE 2 * Pow2(k - 1)

RECURSIVE Pow10(_)
Pow10(k) == IF k <= 0 THEN 1 ELSE 10 * Pow10(k - 1)

\* Number of binary digits of n >= 0 (0 for n = 0).
RECURSIVE BitLen(_)
BitLen(n) == IF n <= 0 THEN 0 ELSE 1 + BitLen(n \div 2)

Min2(a, b) == IF a <= b THEN a ELSE b
Max2(a, b) == IF a >= b THEN a ELSE b

Range(s) == {s[i] : i \in DOMAIN s}

\* A value that may be None: <<>> for None, <<x>> for x.
None == <<>>
Some(x) == <<x>>

Has(rec, field) == field \in DOMAIN rec

\* The JSON value null in a place where the code expects a number.
JsonNull == [null |-> TRUE]

\* ------------------------------------------------------------------------
\* Python float arithmetic
\* ------------------------------------------------------------------------

FZero == [m |-> 0, e |-> 0]

Abs(n) == IF n < 0 THEN -n ELSE n

IsFloat(x) ==
    /\ DOMAIN x = {"m", "e"}
    /\ \/ x = FZero
       \/ (Abs(x.m) >= Pow2(Precision - 1) /\ Abs(x.m) < Pow2(Precision))

\* -x
FNeg(x) == [m |-> -x.m, e |-> x.e]

\* The float nearest to the exact value (N / D) * 2^e, ties to the even
\* mantissa; D # 0. Rounding is symmetric in the sign.
RECURSIVE Round(_, _, _)
Round(N, D, e) ==
    IF N = 0 THEN FZero
    ELSE IF D < 0 THEN Round(-N, -D, e)
    ELSE IF N < 0 THEN FNeg(Round(-N, D, e))
    ELSE IF D % 2 = 0 THEN Round(N, D \div 2, e - 1)
    ELSE LET b == BitLen(N \div D) IN
         IF b < Precision THEN Round(2 * N, D, e - 1)
         ELSE LET k    == b - Precision
                  u    == D * Pow2(k)
                  q    == N \div u
                  r    == N - q * u
                  up   == (2 * r > u) \/ (2 * r = u /\ q % 2 = 1)
                  m2   == IF up THEN q + 1 ELSE q
              IN  IF m2 = Pow2(Precision)
                  THEN [m |-> Pow2(Precision - 1), e |-> e + k + 1]
                  ELSE [m |-> m2, e |-> e + k]

\* int -> float, and the correctly rounded quotient n / d of two ints.
FromInt(n) == Round(n, 1, 0)
FromRat(n, d) == Round(n, d, 0)

\* a < b, a <= b, a = b on floats.
FLt(a, b) ==
    IF a.m <= 0 /\ b.m >= 0 THEN a.m < 0 \/ b.m > 0
    ELSE IF a.m >= 0 /\ b.m <= 0 THEN FALSE
    ELSE IF a.m > 0 THEN a.e < b.e \/ (a.e = b.e /\ a.m < b.m)
    ELSE b.e < a.e \/ (a.e = b.e /\ a.m < b.m)

FLe(a, b) == a = b \/ FLt(a, b)

\* a + b
FAdd(a, b) ==
    IF a.m = 0 THEN b
    ELSE IF b.m = 0 THEN a
    ELSE LET lo == Min2(a.e, b.e)
             hi == Max2(a.e, b.e)
         IN  IF hi - lo > Precision + 1
             THEN (IF a.e > b.e THEN a ELSE b)
             ELSE Round(a.m * Pow2(a.e - lo) + b.m * Pow2(b.e - lo), 1, lo)

\* a * b
FMul(a, b) == Round(a.m * b.m, 1, a.e + b.e)

\* a / b, b # 0 (Python raises ZeroDivisionError on b = 0; every caller below
\* guards the divisor).
FDiv(a, b) == Round(a.m, b.m, a.e - b.e)

\* Python's sum(xs): left-to-right float additions starting from int 0.
RECURSIVE FSum(_)
FSum(xs) == IF xs = <<>> THEN FZero
            ELSE FAdd(FSum(SubSeq(xs, 1, Len(xs) - 1)), xs[Len(xs)])

\* Python's min(xs) / max(xs) on a non-empty list of floats.
RECURSIVE FMin(_)
FMin(xs) == IF Len(xs) = 1 THEN xs[1]
            ELSE LET rest == FMin(Tail(xs)) IN
                 IF FLe(xs[1], rest) THEN xs[1] ELSE rest

RECURSIVE FMax(_)
FMax(xs) == IF Len(xs) = 1 THEN xs[1]
            ELSE LET rest == FMax(Tail(xs)) IN
                 IF FLe(rest, xs[1]) THEN xs[1] ELSE rest

\* ------------------------------------------------------------------------
\* Text
\* ------------------------------------------------------------------------

\* A text is a sequence of one-character strings.
Digits == {"0", "1", "2", "3", "4", "5", "6", "7", "8", "9"}

DigitVal(c) ==
    CASE c = "0" -> 0 [] c = "1" -> 1 [] c = "2" -> 2 [] c = "3" -> 3
      [] c = "4" -> 4 [] c = "5" -> 5 [] c = "6" -> 6 [] c = "7" -> 7
      [] c = "8" -> 8 [] c = "9" -> 9

\* str.strip(): leading and trailing blanks removed.
RECURSIVE LStrip(_)
LStrip(s) == IF s # <<>> /\ s[1] = " " THEN LStrip(Tail(s)) ELSE s

RECURSIVE RStrip(_)
RStrip(s) == IF s # <<>> /\ s[Len(s)] = " "
             THEN RStrip(SubSeq(s, 1, Len(s) - 1)) ELSE s

Strip(s) == RStrip(LStrip(s))

\* The decimal integer written by a sequence of digits.
RECURSIVE DecimalInt(_)
DecimalInt(ds) == IF ds = <<>> THEN 0
                  ELSE 10 * DecimalInt(SubSeq(ds, 1, Len(ds) - 1))
                       + DigitVal(ds[Len(ds)])

IsDigit(c) == c \in Digits
IsDot(c) == c = "."

\* float(text) for a text of an optional sign, digits and dots: the result
\* [ok, neg, val], ok = FALSE standing for ValueError.  (float() accepts more
\* spellings, exponents and "inf" among them; the sample logs use none.)
ParseFloat(text) ==
    LET neg    == text # <<>> /\ text[1] = "-"
        body   == IF neg THEN Tail(text) ELSE text
        digits == SelectSeq(body, IsDigit)
        dots   == SelectSeq(body, IsDot)
        valid  == /\ Len(digits) >= 1
                  /\ Len(dots) <= 1
                  /\ Len(digits) + Len(dots) = Len(body)
        dotAt  == IF dots = <<>> THEN Len(body) + 1
                  ELSE CHOOSE i \in 1..Len(body) : body[i] = "."
        frac   == Len(body) - Min2(dotAt, Len(body))
    IN  IF valid
        THEN [ok |-> TRUE, neg |-> neg,
              val |-> FromRat(DecimalInt(digits), Pow10(frac))]
        ELSE [ok |-> FALSE, neg |-> FALSE, val |-> FZero]

\* ------------------------------------------------------------------------
\* timing_analyzer.py
\* ------------------------------------------------------------------------

\* The four default regular expressions, named in their list order:
\*   'Phase: X, Time: Ns', 'X took N s', '[X]: N s', 'Time for X: N'.
default_patterns == <<"PhaseTime", "Took", "Bracket", "TimeFor">>

\* A line of the log is represented by what re.search finds in it for every
\* pattern: line.found[pat] is NoMatch or Match(groups), groups being the
\* sequence of the match's groups, each a text (NoGroup for a group that did
\* not take part in the match; a pattern of fewer than two groups gives a
\* shorter sequence).  line.blank: the line is empty once stripped;
\* line.keyword: it contains 'time', 'phase' or 'took'.
NoMatch == [hit |-> FALSE, groups |-> <<>>]
Match(groups) == [hit |-> TRUE, groups |-> groups]
NoGroup == <<"None">>

\* A variant that keeps the defaults as a fallback behind a custom pattern.
patterns_to_try_with_fallback(pattern) ==
    IF pattern # Null /\ pattern # "" THEN <<pattern>> \o default_patterns
    ELSE default_patterns

\* patterns_to_try = [pattern] if pattern else default_patterns
\* (an empty --pattern is falsy: the defaults are used).
patterns_to_try(pattern) ==
    IF pattern # Null /\ pattern # "" THEN <<pattern>> ELSE default_patterns

\* The body of the loop over the patterns for one pattern (lines 45-55):
\*   "nomatch"   re.search found nothing, the next pattern is tried
\*   "entry"     (phase, time_val) is appended, the loop breaks
\*   "malformed" ValueError or IndexError: malformed_count += 1, next pattern
\*   "negative"  time_val >= 0 is false: nothing happens, next pattern
\*   "abort"     another exception (a group that is None): it leaves the
\*               function through `except Exception` as ValueError
TryPattern(line, pat) ==
    LET groups == line.found[pat].groups IN
    IF ~line.found[pat].hit THEN [kind |-> "nomatch"]
    ELSE IF Len(groups) < 1 THEN [kind |-> "malformed"]
    ELSE IF groups[1] = NoGroup THEN [kind |-> "abort"]
    ELSE IF Len(groups) < 2 THEN [kind |-> "malformed"]
    ELSE IF groups[2] = NoGroup THEN [kind |-> "abort"]
    ELSE LET f == ParseFloat(groups[2]) IN
         IF ~f.ok THEN [kind |-> "malformed"]
         ELSE IF f.neg /\ f.val # FZero THEN [kind |-> "negative"]
         ELSE [kind |-> "entry", phase |-> Strip(groups[1]), time |-> f.val]

\* for pat in patterns_to_try: ... (lines 43-55), from the i-th pattern on.
\* Result: [abort, matched, entry, malformed].
RECURSIVE ScanPatterns(_, _, _, _)
ScanPatterns(line, pats, i, malformed) ==
    IF i > Len(pats)
    THEN [abort |-> FALSE, matched |-> FALSE, entry |-> <<>>,
          malformed |-> malformed]
    ELSE LET t == TryPattern(line, pats[i]) IN
         CASE t.kind = "entry" ->
                [abort |-> FALSE, matched |-> TRUE,
                 entry |-> <<t.phase, t.time>>, malformed |-> malformed]
           [] t.kind = "abort" ->
                [abort |-> TRUE, matched |-> FALSE, entry |-> <<>>,
                 malformed |-> malformed]
           [] t.kind = "malformed" ->
                ScanPatterns(line, pats, i + 1, malformed + 1)
           [] OTHER -> ScanPatterns(line, pats, i + 1, malformed)

\* for line in f: ... (lines 38-58), from the i-th line on.
RECURSIVE ScanLines(_, _, _, _, _)
ScanLines(lines, pats, i, entries, malformed) ==
    IF i > Len(lines)
    THEN [status |-> "ok", entries |-> entries, malformed_count |-> malformed]
    ELSE IF lines[i].blank
    THEN ScanLines(lines, pats, i + 1, entries, malformed)
    ELSE LET r == ScanPatterns(lines[i], pats, 1, malformed) IN
         IF r.abort
         THEN [status |-> "ValueError", entries |-> <<>>,
               malformed_count |-> r.malformed]
         ELSE IF r.matched
         THEN ScanLines(lines, pats, i + 1, Append(entries, r.entry),
                        r.malformed)
         ELSE ScanLines(lines, pats, i + 1, entries,
                        IF lines[i].keyword THEN r.malformed + 1
                        ELSE r.malformed)

\* parse_timing_log(log_path, pattern); `file` is what log_path names:
\* [exists, lines].
parse_timing_log(file, pattern) ==
    IF ~file.exists
    THEN [status |-> "FileNotFoundError", entries |-> <<>>,
          malformed_count |-> 0]
    ELSE ScanLines(file.lines, patterns_to_try(pattern), 1, <<>>, 0)

\* The distinct phase names of the entries, in the order of their first
\* occurrence (the key order of the dict phase_times, lines 84-88).
RECURSIVE PhaseOrder(_)
PhaseOrder(entries) ==
    IF entries = <<>> THEN <<>>
    ELSE LET before == PhaseOrder(SubSeq(entries, 1, Len(entries) - 1))
             phase  == entries[Len(entries)][1]
         IN  IF phase \in Range(before) THEN before ELSE Append(before, phase)

\* phase_times[phase]: the times of the entries of one phase, in entry order.
RECURSIVE TimesOf(_, _)
TimesOf(entries, phase) ==
    IF entries = <<>> THEN <<>>
    ELSE LET rest == TimesOf(Tail(entries), phase) IN
         IF entries[1][1] = phase THEN <<entries[1][2]>> \o rest ELSE rest

\* [time_val for _, time_val in entries]
AllTimes(entries) == [i \in 1..Len(entries) |-> entries[i][2]]

\* total_time = sum(time_val for _, time_val in entries)           (line 90)
entries_total_time(entries) == FSum(AllTimes(entries))

\* 'mean_time': sum(times) / len(times)                            (line 97)
phase_mean_time(times) == FDiv(FSum(times), FromInt(Len(times)))

\* 'percentage': (sum(times) / total_time * 100) if total_time > 0 else 0.0
phase_percentage(times, total_time) ==                          \* (line 100)
    IF FLt(FZero, total_time)
    THEN FMul(FDiv(FSum(times), total_time), FromInt(100))
    ELSE FZero

\* aggregated[phase] = {...}                                   (lines 94-101)
phase_stats(phase, times, total_time) ==
    [name       |-> phase,
     total_time |-> FSum(times),
     count      |-> Len(times),
     mean_time  |-> phase_mean_time(times),
     min_time   |-> FMin(times),
     max_time   |-> FMax(times),
     percentage |-> phase_percentage(times, total_time)]

\* aggregate_timings(entries): the dict phase -> statistics, as the sequence
\* of its items in key order, every item carrying its key as 'name'.
aggregate_timings(entries) ==
    IF entries = <<>> THEN <<>>
    ELSE LET order == PhaseOrder(entries)
             total == entries_total_time(entries)
         IN  [i \in 1..Len(order) |->
                 phase_stats(order[i], TimesOf(entries, order[i]), total)]

\* sorted(items, key=total_time, reverse=True): a stable sort, items of equal
\* total_time keeping their order.
RECURSIVE SortByTotalDesc(_)
SortByTotalDesc(items) ==
    IF items = <<>> THEN <<>>
    ELSE LET sorted == SortByTotalDesc(SubSeq(items, 1, Len(items) - 1))
             x      == items[Len(items)]
             \* x goes behind every item whose total_time is >= its own
             keep   == {i \in 1..Len(sorted) :
                           \A j \in 1..i :
                              FLe(x.total_time, sorted[j].total_time)}
             n      == Cardinality(keep)
         IN  SubSeq(sorted, 1, n) \o <<x>> \o SubSeq(sorted, n + 1, Len(sorted))

\* Default of identify_slowest_phases' top_n.
top_n_default == 5

\* identify_slowest_phases(aggregated, top_n)
identify_slowest_phases(aggregated, top_n) ==
    LET sorted == SortByTotalDesc(aggregated)
    IN  [i \in 1..Min2(top_n, Len(sorted)) |-> sorted[i].name]

\* total_time = sum(data['total_time'] for data in aggregated.values())
report_total_time(aggregated) ==                                \* (line 145)
    FSum([i \in 1..Len(aggregated) |-> aggregated[i].total_time])

\* The JSON document main prints under --json (lines 149-165).
timing_json(args, aggregated) ==
    LET slowest == identify_slowest_phases(aggregated, top_n_default) IN
    [inputs  |-> [log_file |-> "log",
                  pattern  |-> IF args.pattern # Null /\ args.pattern # ""
                               THEN args.pattern ELSE "default"],
     results |-> [phases        |-> aggregated,
                  total_time    |-> report_total_time(aggregated),
                  slowest_phase |-> IF slowest # <<>> THEN Some(slowest[1])
                                    ELSE None]]

\* The table main prints otherwise (lines 168-180): a row per phase of
\* `slowest`; the numbers are those formatted into the row.
timing_text(aggregated) ==
    LET slowest == identify_slowest_phases(aggregated, top_n_default)
        row(phase) == CHOOSE d \in Range(aggregated) : d.name = phase
    IN  [total_time |-> report_total_time(aggregated),
         rows       |-> [i \in 1..Len(slowest) |-> row(slowest[i])]]

\* ------------------------------------------------------------------------
\* scaling_analyzer.py
\* ------------------------------------------------------------------------

\* The first problem of runs[i..] in list order, per run in the order
\* missing processors, missing time, invalid time, invalid processors
\* (lines 34-42); None when every run is valid.
RECURSIVE FirstInvalidRun(_, _)
FirstInvalidRun(runs, i) ==
    IF i > Len(runs) THEN None
    ELSE LET run == runs[i] IN
         IF ~Has(run, "processors")
         THEN Some([run |-> i - 1, problem |-> "missing processors"])
         ELSE IF ~Has(run, "time")
         THEN Some([run |-> i - 1, problem |-> "missing time"])
         ELSE IF run.time = JsonNull      \* None <= 0 raises TypeError
         THEN Some([run |-> i - 1, problem |-> "TypeError"])
         ELSE IF FLe(run.time, FZero)
         THEN Some([run |-> i - 1, problem |-> "invalid time"])
         ELSE IF run.processors <= 0
         THEN Some([run |-> i - 1, problem |-> "invalid processors"])
         ELSE FirstInvalidRun(runs, i + 1)

\* load_scaling_data(path); `file` is what path names: [exists, json, doc],
\* json saying whether the content parses as JSON.
load_scaling_data(file) ==
    IF ~file.exists
    THEN [status |-> "FileNotFoundError", runs |-> <<>>, detail |-> None]
    ELSE IF ~file.utf8
    THEN [status |-> "ValueError", runs |-> <<>>,
          detail |-> Some("UnicodeDecodeError")]
    ELSE IF ~file.json
    THEN [status |-> "ValueError", runs |-> <<>>,
          detail |-> Some("Invalid JSON format")]
    ELSE IF ~Has(file.doc, "runs")
    THEN [status |-> "ValueError", runs |-> <<>>,
          detail |-> Some("JSON must contain 'runs' array")]
    ELSE IF Len(file.doc.runs) < 2
    THEN [status |-> "ValueError", runs |-> <<>>,
          detail |-> Some("At least 2 runs required")]
    ELSE LET invalid == FirstInvalidRun(file.doc.runs, 1) IN
         IF invalid = None
         THEN [status |-> "ok", runs |-> file.doc.runs, detail |-> None]
         ELSE [status |-> IF invalid[1].problem = "TypeError"
                          THEN "TypeError" ELSE "ValueError",
               runs |-> <<>>, detail |-> invalid]

\* sorted(runs, key=lambda x: x['processors']): a stable sort, runs of equal
\* processor count keeping their input order.
RECURSIVE SortByProcessors(_)
SortByProcessors(runs) ==
    IF runs = <<>> THEN <<>>
    ELSE LET sorted == SortByProcessors(SubSeq(runs, 1, Len(runs) - 1))
             x      == runs[Len(runs)]
             \* x goes behind every run whose processor count is <= its own
             n      == Cardinality({i \in 1..Len(sorted) :
                           \A j \in 1..i :
                              sorted[j].processors <= x.processors})
         IN  SubSeq(sorted, 1, n) \o <<x>> \o SubSeq(sorted, n + 1, Len(sorted))

\* The float literal 0.70 of lines 91 and 149.
EfficiencyFloor == FromRat(7, 10)

\* A variant that counts an efficiency of exactly 0.70 as below the floor.
RECURSIVE threshold_procs_inclusive(_)
threshold_procs_inclusive(results) ==
    IF results = <<>> THEN None
    ELSE IF FLe(results[1].efficiency, EfficiencyFloor)
    THEN Some(results[1].processors)
    ELSE threshold_procs_inclusive(Tail(results))

\* threshold_procs: the processors of the first result whose efficiency is
\* < 0.70, else None (lines 88-93, 146-151).
RECURSIVE threshold_procs(_)
threshold_procs(results) ==
    IF results = <<>> THEN None
    ELSE IF FLt(results[1].efficiency, EfficiencyFloor)
    THEN Some(results[1].processors)
    ELSE threshold_procs(Tail(results))

\* avg_efficiency = sum(r['efficiency'] for r in results) / len(results)
avg_efficiency(results) ==
    FDiv(FSum([i \in 1..Len(results) |-> results[i].efficiency]),
         FromInt(Len(results)))

\* A variant that takes the first run as given, unsorted, for baseline.
scaling_baseline_unsorted(runs) == runs[1]

\* The baseline: sorted_runs[0] (lines 66, 124).
scaling_baseline(runs) == SortByProcessors(runs)[1]

\* One entry of compute_strong_scaling's results (lines 72-86).
\* procs / baseline_procs divides two ints: one correctly rounded quotient.
strong_result(run, baseline) ==
    LET speedup    == FDiv(baseline.time, run.time)
        efficiency == FDiv(speedup,
                           FromRat(run.processors, baseline.processors))
    IN  [processors |-> run.processors, time |-> run.time,
         speedup |-> speedup, efficiency |-> efficiency]

\* A variant of weak scaling that divides the efficiency by the processor
\* ratio, as strong scaling does.
weak_result_per_processor(run, baseline) ==
    LET speedup    == FDiv(baseline.time, run.time)
        efficiency == FDiv(speedup,
                           FromRat(run.processors, baseline.processors))
    IN  [processors |-> run.processors, time |-> run.time,
         speedup |-> speedup, efficiency |-> efficiency]

\* One entry of compute_weak_scaling's results (lines 130-144).
weak_result(run, baseline) ==
    LET efficiency == FDiv(baseline.time, run.time)
        speedup    == FMul(efficiency,
                           FromRat(run.processors, baseline.processors))
    IN  [processors |-> run.processors, time |-> run.time,
         speedup |-> speedup, efficiency |-> efficiency]

\* compute_strong_scaling(runs)
compute_strong_scaling(runs) ==
    LET sorted_runs == SortByProcessors(runs)
        baseline    == scaling_baseline(runs)
        results     == [i \in 1..Len(sorted_runs) |->
                           strong_result(sorted_runs[i], baseline)]
    IN  [type     |-> "strong",
         baseline |-> [processors |-> baseline.processors,
                       time |-> baseline.time],
         results  |-> results,
         efficiency_threshold_processors |-> threshold_procs(results),
         average_efficiency |-> avg_efficiency(results)]

\* compute_weak_scaling(runs)
compute_weak_scaling(runs) ==
    LET sorted_runs == SortByProcessors(runs)
        baseline    == scaling_baseline(runs)
        results     == [i \in 1..Len(sorted_runs) |->
                           weak_result(sorted_runs[i], baseline)]
    IN  [type     |-> "weak",
         baseline |-> [processors |-> baseline.processors,
                       time |-> baseline.time],
         results  |-> results,
         efficiency_threshold_processors |-> threshold_procs(results),
         average_efficiency |-> avg_efficiency(results)]

\* The JSON document main prints under --json (lines 191-197).
scaling_json(args, analysis) ==
    [inputs  |-> [data_file |-> "data", scaling_type |-> args.type],
     results |-> analysis]

\* The text report (lines 200-215): the rows, the average and the closing
\* line, which tests the truth of efficiency_threshold_processors.
scaling_text(analysis) ==
    LET t == analysis.efficiency_threshold_processors IN
    [baseline |-> analysis.baseline,
     rows     |-> analysis.results,
     average_efficiency |-> analysis.average_efficiency,
     closing  |-> IF t # None /\ t[1] # 0
                  THEN [says |-> "drops below 0.70", at |-> t]
                  ELSE [says |-> "remains above 0.70", at |-> None]]

\* ------------------------------------------------------------------------
\* memory_profiler.py
\* ------------------------------------------------------------------------

\* dict.get(field, default)
Get(rec, field, default) == IF Has(rec, field) THEN rec[field] ELSE default

\* format(x, '.<d>f') of a float, as the integer x * 10^d rounded to
\* nearest, ties to even, on the float's exact value (12 stands for "0.12"
\* when d = 2; the sign of a negative value that rounds to zero is dropped).
Fixed(x, d) ==
    LET N == Abs(x.m) * Pow10(d)
        magnitude ==
            IF x.e >= 0 THEN N * Pow2(x.e)
            ELSE LET D == Pow2(Min2(-x.e, 30))
                     q == N \div D
                     r == N % D
                 IN  IF 2 * r > D \/ (2 * r = D /\ q % 2 = 1) THEN q + 1 ELSE q
    IN  IF x.m < 0 THEN -magnitude ELSE magnitude

\* load_parameters(path); `file` is what path names: [exists, json, doc].
load_parameters(file) ==
    IF ~file.exists
    THEN [status |-> "FileNotFoundError", params |-> <<>>, detail |-> None]
    ELSE IF ~file.utf8
    THEN [status |-> "ValueError", params |-> <<>>,
          detail |-> Some("UnicodeDecodeError")]
    ELSE IF ~file.json
    THEN [status |-> "ValueError", params |-> <<>>,
          detail |-> Some("Invalid JSON format")]
    ELSE IF ~Has(file.doc, "mesh") \/ ~Has(file.doc, "fields")
    THEN [status |-> "ValueError", params |-> <<>>,
          detail |-> Some([missing |->
                       (IF Has(file.doc, "mesh") THEN <<>> ELSE <<"mesh">>)
                       \o (IF Has(file.doc, "fields") THEN <<>> ELSE <<"fields">>)])]
    ELSE [status |-> "ok", params |-> file.doc, detail |-> None]

\* A number of the parameter file as Python holds it: PyInt(n) for an int, a
\* float as it is, JsonNull for null.
PyInt(n) == [int |-> n]
IsInt(v) == Has(v, "int")                       \* isinstance(v, int)
IsNumber(v) == Has(v, "int") \/ Has(v, "m")     \* isinstance(v, (int, float))

\* v > 0 for a number v.
Positive(v) == IF IsInt(v) THEN v.int > 0 ELSE FLt(FZero, v)

\* What an arithmetic operator gives when it raises TypeError.
Raised == [raised |-> "TypeError"]

AsFloat(v) == IF IsInt(v) THEN FromInt(v.int) ELSE v

\* a * b: exact on two ints, a float when either is one; None has no '*'.
Times(a, b) ==
    IF ~IsNumber(a) \/ ~IsNumber(b) THEN Raised
    ELSE IF IsInt(a) /\ IsInt(b) THEN PyInt(a.int * b.int)
    ELSE FMul(AsFloat(a), AsFloat(b))

\* a + b
Plus(a, b) ==
    IF ~IsNumber(a) \/ ~IsNumber(b) THEN Raised
    ELSE IF IsInt(a) /\ IsInt(b) THEN PyInt(a.int + b.int)
    ELSE FAdd(AsFloat(a), AsFloat(b))

\* a / n for an int n > 0: the correctly rounded quotient.
TrueDiv(a, n) ==
    IF IsInt(a) THEN FromRat(a.int, n) ELSE FDiv(a, FromInt(n))

\* nx * ny * nz, each defaulting to 1 (lines 55-62, 91-94, 127-130).
mesh_points(mesh) ==
    Times(Times(Get(mesh, "nx", PyInt(1)), Get(mesh, "ny", PyInt(1))),
          Get(mesh, "nz", PyInt(1)))

GiB == 1024 * 1024 * 1024                                   \* 1024 ** 3

\* not isinstance(val, int) or val <= 0
NotPositiveInt(val) == ~IsInt(val) \/ val.int <= 0

\* The first mesh dimension, in the order nx, ny, nz, that is not a positive
\* integer (lines 59-61); None when all are.
BadMeshDimension(mesh) ==
    IF NotPositiveInt(Get(mesh, "nx", PyInt(1))) THEN Some("nx")
    ELSE IF NotPositiveInt(Get(mesh, "ny", PyInt(1))) THEN Some("ny")
    ELSE IF NotPositiveInt(Get(mesh, "nz", PyInt(1))) THEN Some("nz")
    ELSE None

\* The loop over fields.items() (lines 66-73) from field i on: the bytes
\* summed, or the first field whose components is not a positive integer or
\* whose bytes_per_value is not a positive number. `fields` lists the
\* dictionary's items in order, each [name, spec].
RECURSIVE FieldBytes(_, _, _, _)
FieldBytes(fields, points, i, total_bytes) ==
    IF i > Len(fields) THEN [status |-> "ok", bytes |-> total_bytes]
    ELSE LET field_spec      == fields[i].spec
             components      == Get(field_spec, "components", PyInt(1))
             bytes_per_value == Get(field_spec, "bytes_per_value", PyInt(8))
         IN  IF NotPositiveInt(components)
             THEN [status |-> "ValueError", bytes |-> PyInt(0),
                   detail |-> [field |-> fields[i].name, what |-> "components"]]
             ELSE IF ~IsNumber(bytes_per_value) \/ ~Positive(bytes_per_value)
             THEN [status |-> "ValueError", bytes |-> PyInt(0),
                   detail |-> [field |-> fields[i].name, what |-> "bytes_per_value"]]
             ELSE FieldBytes(fields, points, i + 1,
                     Plus(total_bytes,
                          Times(Times(points, components), bytes_per_value)))

\* return total_bytes / (1024 ** 3) (line 76), or the ValueError the loop
\* has raised.
field_memory_gb(r) ==
    IF r.status # "ok"
    THEN [status |-> "ValueError", gb |-> FZero, detail |-> r.detail]
    ELSE [status |-> "ok", gb |-> TrueDiv(r.bytes, GiB), detail |-> <<>>]

\* estimate_field_memory(mesh, fields): GB, or the ValueError raised.
estimate_field_memory(mesh, fields) ==
    IF BadMeshDimension(mesh) # None
    THEN [status |-> "ValueError", gb |-> FZero,
          detail |-> [dimension |-> BadMeshDimension(mesh)[1]]]
    ELSE field_memory_gb(FieldBytes(fields, mesh_points(mesh), 1, PyInt(0)))

default_solver == [type |-> "iterative", workspace_multiplier |-> PyInt(5)]

\* estimate_solver_memory(mesh, solver): GB, or the TypeError of a
\* multiplier that is no number. The multiplier is not validated.
solver_workspace_gb(workspace_bytes) ==                     \* (line 105)
    IF workspace_bytes = Raised
    THEN [status |-> "TypeError", gb |-> FZero]
    ELSE [status |-> "ok", gb |-> TrueDiv(workspace_bytes, GiB)]

estimate_solver_memory(mesh, solver) ==
    LET workspace_multiplier == Get(solver, "workspace_multiplier", PyInt(5))
        bytes_per_value      == PyInt(8)
    IN  solver_workspace_gb(
            Times(Times(mesh_points(mesh), workspace_multiplier),
                  bytes_per_value))

\* The warnings of lines 139-144; available_gb is None or Some(float).
memory_warnings(total_memory_gb, available_gb) ==
    IF available_gb = None THEN <<>>
    ELSE IF FLt(available_gb[1], total_memory_gb)
    THEN << [says |-> "exceeds available memory",
             total |-> Fixed(total_memory_gb, 2),
             available |-> Fixed(available_gb[1], 2)] >>
    ELSE IF FLt(FMul(FromRat(8, 10), available_gb[1]), total_memory_gb)
    THEN << [says |-> "is high (>80% of available)",
             total |-> Fixed(total_memory_gb, 2),
             available |-> Fixed(available_gb[1], 2)] >>
    ELSE <<>>

\* The dictionary compute_total_memory returns (lines 146-153).
memory_profile(points, field_gb, solver_gb, total_gb, processors, available) ==
    [mesh_points         |-> points.int,
     field_memory_gb     |-> field_gb,
     solver_workspace_gb |-> solver_gb,
     total_memory_gb     |-> total_gb,
     per_process_gb      |-> FDiv(total_gb, FromInt(processors.int)),
     warnings            |-> memory_warnings(total_gb, available)]

\* Lines 133-153, given what estimate_field_memory and
\* estimate_solver_memory have returned or raised.
total_memory(points, field, solver_workspace, processors, available_gb) ==
    IF field.status # "ok"
    THEN [status |-> "ValueError", detail |-> field.detail]
    ELSE IF solver_workspace.status # "ok"
    THEN [status |-> "TypeError", detail |-> [line |-> 102]]
    ELSE [status  |-> "ok",
          profile |-> memory_profile(points, field.gb, solver_workspace.gb,
                                     FAdd(field.gb, solver_workspace.gb),
                                     processors, available_gb)]

\* compute_total_memory(params, available_gb): the profile, or the
\* exception raised. Line 130 multiplies the mesh dimensions before
\* estimate_field_memory has validated them.
compute_total_memory(params, available_gb) ==
    LET mesh       == params.mesh
        fields     == params.fields
        solver     == Get(params, "solver", default_solver)
        processors == Get(params, "processors", PyInt(1))
    IN  IF NotPositiveInt(processors)
        THEN [status |-> "ValueError", detail |-> [processors |-> processors]]
        ELSE IF ~IsNumber(Get(mesh, "nx", PyInt(1)))
                \/ ~IsNumber(Get(mesh, "ny", PyInt(1)))
                \/ ~IsNumber(Get(mesh, "nz", PyInt(1)))
        THEN [status |-> "TypeError", detail |-> [line |-> 130]]
        ELSE total_memory(mesh_points(mesh),
                          estimate_field_memory(mesh, fields),
                          estimate_solver_memory(mesh, solver),
                          processors, available_gb)

\* The JSON document main prints under --json (lines 175-182).
memory_json(args, profile) ==
    [inputs  |-> [params_file |-> "params", available_gb |-> args.available_gb],
     results |-> profile]

\* The text report (lines 184-195).
memory_text(profile) ==
    [mesh_points         |-> profile.mesh_points,
     field_memory_gb     |-> Fixed(profile.field_memory_gb, 3),
     solver_workspace_gb |-> Fixed(profile.solver_workspace_gb, 3),
     total_memory_gb     |-> Fixed(profile.total_memory_gb, 3),
     per_process_gb      |-> Fixed(profile.per_process_gb, 3),
     warnings            |-> profile.warnings]

\* ------------------------------------------------------------------------
\* bottleneck_detector.py
\* ------------------------------------------------------------------------

\* One optional input of load_analysis_results (lines 36-43, 46-53): `path`
\* is None when the option is not given, else Some(file); a missing file
\* or a text that is not JSON gives a warning on stderr and no entry in
\* results. A file that is not UTF-8 text makes json.load raise
\* UnicodeDecodeError, which neither except clause catches.
LoadOptional(path, what) ==
    IF path = None THEN [status |-> "ok", doc |-> None, warnings |-> <<>>]
    ELSE IF ~path[1].exists
    THEN [status |-> "ok", doc |-> None,
          warnings |-> << [warning |-> what \o " file not found"] >>]
    ELSE IF ~path[1].utf8
    THEN [status |-> "UnicodeDecodeError", doc |-> None, warnings |-> <<>>]
    ELSE IF ~path[1].json
    THEN [status |-> "ok", doc |-> None,
          warnings |-> << [warning |-> "Invalid " \o what \o " JSON"] >>]
    ELSE [status |-> "ok", doc |-> Some(path[1].doc), warnings |-> <<>>]

\* load_analysis_results(timing_path, scaling_path, memory_path). The
\* dictionary `results` is a record of options: results.scaling = None says
\* 'scaling' not in results.
load_analysis_results(timing_path, scaling_path, memory_path) ==
    IF ~timing_path.exists
    THEN [status |-> "FileNotFoundError", warnings |-> <<>>]
    ELSE IF ~timing_path.utf8
    THEN [status |-> "UnicodeDecodeError", warnings |-> <<>>]
    ELSE IF ~timing_path.json
    THEN [status |-> "ValueError", warnings |-> <<>>]
    ELSE LET scaling == LoadOptional(scaling_path, "Scaling")
             memory  == LoadOptional(memory_path, "Memory")
         IN  IF scaling.status # "ok"
             THEN [status |-> scaling.status, warnings |-> <<>>]
             ELSE IF memory.status # "ok"
             THEN [status |-> memory.status, warnings |-> scaling.warnings]
             ELSE [status   |-> "ok",
                   results  |-> [timing  |-> Some(timing_path.doc),
                                 scaling |-> scaling.doc,
                                 memory  |-> memory.doc],
                   warnings |-> scaling.warnings \o memory.warnings]

timing_threshold_default == FromInt(50)                       \* line 58
timing_high_above        == FromInt(70)                       \* line 79
scaling_threshold_default == FromRat(7, 10)                   \* line 92
scaling_high_below       == FromRat(1, 2)                     \* line 115
memory_threshold_default == FromRat(8, 10)                    \* line 124

\* Labels no code looks into are kept whole; a phase name, which
\* generate_recommendations searches, is a sequence of characters.
parallel_efficiency == <<"parallel_efficiency">>
memory_usage        == <<"memory_usage">>

\* A variant that reports a phase at exactly the threshold too.
detect_timing_bottlenecks_inclusive(timing_data, threshold) ==
    IF ~Has(timing_data, "timing_data") THEN <<>>
    ELSE LET phases == Get(timing_data.timing_data, "phases", <<>>)
             percentage(phase) == Get(phase, "percentage", FZero)
             over == SelectSeq(phases,
                               LAMBDA phase : FLe(threshold, percentage(phase)))
         IN  [i \in 1..Len(over) |->
                [type      |-> "timing",
                 phase     |-> over[i].name,
                 severity  |-> IF FLt(timing_high_above, percentage(over[i]))
                               THEN "high" ELSE "medium",
                 metric    |-> "percentage",
                 value     |-> percentage(over[i]),
                 threshold |-> threshold]]

\* detect_timing_bottlenecks(timing_data, threshold)
detect_timing_bottlenecks(timing_data, threshold) ==
    IF ~Has(timing_data, "timing_data") THEN <<>>
    ELSE LET phases == Get(timing_data.timing_data, "phases", <<>>)
             percentage(phase) == Get(phase, "percentage", FZero)
             over == SelectSeq(phases,
                               LAMBDA phase : FLt(threshold, percentage(phase)))
         IN  [i \in 1..Len(over) |->
                [type      |-> "timing",
                 phase     |-> over[i].name,
                 severity  |-> IF FLt(timing_high_above, percentage(over[i]))
                               THEN "high" ELSE "medium",
                 metric    |-> "percentage",
                 value     |-> percentage(over[i]),
                 threshold |-> threshold]]

\* A variant that grades every scaling bottleneck against the threshold
\* instead of 0.5.
detect_scaling_bottlenecks_graded(scaling_data, threshold) ==
    IF ~Has(scaling_data, "scaling_analysis") THEN <<>>
    ELSE LET scaling_analysis == scaling_data.scaling_analysis
             average == Get(scaling_analysis, "average_efficiency", FromInt(1))
         IN  IF FLt(average, threshold)
             THEN << [type      |-> "scaling",
                      phase     |-> parallel_efficiency,
                      severity  |-> "high",
                      metric    |-> "efficiency",
                      value     |-> average,
                      threshold |-> threshold] >>
             ELSE <<>>

\* detect_scaling_bottlenecks(scaling_data, threshold)
detect_scaling_bottlenecks(scaling_data, threshold) ==
    IF ~Has(scaling_data, "scaling_analysis") THEN <<>>
    ELSE LET scaling_analysis == scaling_data.scaling_analysis
             average == Get(scaling_analysis, "average_efficiency",
                                   FromInt(1))
         IN  IF FLt(average, threshold)
             THEN << [type      |-> "scaling",
                      phase     |-> parallel_efficiency,
                      severity  |-> IF FLt(average, scaling_high_below)
                                    THEN "high" ELSE "medium",
                      metric    |-> "efficiency",
                      value     |-> average,
                      threshold |-> threshold] >>
             ELSE <<>>

\* A variant that reports a bottleneck whenever the profile has a warnings
\* field, be the list empty or not.
detect_memory_bottlenecks_any_list(memory_data, threshold) ==
    IF ~Has(memory_data, "memory_profile") THEN <<>>
    ELSE LET profile == memory_data.memory_profile IN
         IF Has(profile, "warnings")
         THEN << [type      |-> "memory",
                  phase     |-> memory_usage,
                  severity  |-> "high",
                  metric    |-> "total_memory_gb",
                  value     |-> Get(profile, "total_memory_gb", FZero),
                  threshold |-> threshold] >>
         ELSE <<>>

\* detect_memory_bottlenecks(memory_data, threshold)
detect_memory_bottlenecks(memory_data, threshold) ==
    IF ~Has(memory_data, "memory_profile") THEN <<>>
    ELSE LET profile == memory_data.memory_profile IN
         IF Get(profile, "warnings", <<>>) # <<>>
         THEN << [type      |-> "memory",
                  phase     |-> memory_usage,
                  severity  |-> "high",
                  metric    |-> "total_memory_gb",
                  value     |-> Get(profile, "total_memory_gb", FZero),
                  threshold |-> threshold] >>
         ELSE <<>>

\* str.lower() on ASCII letters.
UpperCase == <<"A", "B", "C", "D", "E", "F", "G", "H", "I", "J", "K", "L", "M",
               "N", "O", "P", "Q", "R", "S", "T", "U", "V", "W", "X", "Y", "Z">>
LowerCase == <<"a", "b", "c", "d", "e", "f", "g", "h", "i", "j", "k", "l", "m",
               "n", "o", "p", "q", "r", "s", "t", "u", "v", "w", "x", "y", "z">>

Lower(s) ==
    [i \in 1..Len(s) |->
        IF \E k \in 1..26 : UpperCase[k] = s[i]
        THEN LowerCase[CHOOSE k \in 1..26 : UpperCase[k] = s[i]]
        ELSE s[i]]

\* keyword in phase
Contains(s, keyword) ==
    \E i \in 0..(Len(s) - Len(keyword)) :
        SubSeq(s, i + 1, i + Len(keyword)) = keyword

solver_keywords ==                                            \* line 185
    << <<"s", "o", "l", "v", "e">>, <<"l", "i", "n", "e", "a", "r">>,
       <<"i", "t", "e", "r", "a", "t", "i", "o", "n">>, <<"c", "g">>,
       <<"g", "m", "r", "e", "s">> >>
assembly_keywords ==                                          \* line 199
    << <<"a", "s", "s", "e", "m", "b", "l", "y">>,
       <<"a", "s", "s", "e", "m", "b", "l", "e">>, <<"b", "u", "i", "l", "d">> >>
io_keywords ==                                                \* line 213
    << <<"i", "o">>, <<"w", "r", "i", "t", "e">>,
       <<"o", "u", "t", "p", "u", "t">>, <<"s", "a", "v", "e">> >>

AnyKeyword(keywords, phase) ==
    \E k \in 1..Len(keywords) : Contains(phase, keywords[k])

solver_strategies ==
    <<"Use algebraic multigrid (AMG) preconditioner",
      "Tighten solver tolerance if over-solving",
      "Consider direct solver for small problems",
      "Profile matrix assembly vs solve time">>
assembly_strategies ==
    <<"Cache element matrices if geometry is static",
      "Use vectorized assembly routines",
      "Consider matrix-free methods",
      "Parallelize assembly with coloring">>
io_strategies ==
    <<"Reduce output frequency", "Use parallel I/O (HDF5, MPI-IO)",
      "Write to fast scratch storage", "Compress output data">>
general_strategies ==
    <<"Profile this phase in detail", "Look for algorithmic improvements",
      "Consider parallelization opportunities">>
parallel_strategies ==
    <<"Investigate communication overhead", "Check for load imbalance",
      "Reduce synchronization points", "Use asynchronous communication",
      "Consider hybrid MPI+OpenMP">>
memory_strategies ==
    <<"Reduce mesh resolution",
      "Use iterative solver (lower memory than direct)",
      "Enable out-of-core computation", "Increase number of processors",
      "Use single precision where appropriate">>
balanced_strategies ==
    <<"Performance appears balanced", "Consider profiling at larger scale">>

\* The recommendation for one bottleneck (lines 181-267); a bottleneck of
\* another type gives none.
recommendation_for(bottleneck) ==
    IF bottleneck.type = "timing"
    THEN LET phase == Lower(bottleneck.phase)
             issue == [phase |-> bottleneck.phase,
                       says  |-> "dominates runtime",
                       value |-> Fixed(bottleneck.value, 1)]
         IN  IF AnyKeyword(solver_keywords, phase)
             THEN << [priority |-> "high", category |-> "solver",
                      issue |-> issue, strategies |-> solver_strategies] >>
             ELSE IF AnyKeyword(assembly_keywords, phase)
             THEN << [priority |-> "high", category |-> "assembly",
                      issue |-> issue, strategies |-> assembly_strategies] >>
             ELSE IF AnyKeyword(io_keywords, phase)
             THEN << [priority |-> "medium", category |-> "io",
                      issue |-> issue, strategies |-> io_strategies] >>
             ELSE << [priority |-> "medium", category |-> "general",
                      issue |-> issue, strategies |-> general_strategies] >>
    ELSE IF bottleneck.type = "scaling"
    THEN << [priority |-> "high", category |-> "parallel",
             issue |-> [phase |-> bottleneck.phase,
                        says  |-> "Poor parallel efficiency",
                        value |-> Fixed(bottleneck.value, 2)],
             strategies |-> parallel_strategies] >>
    ELSE IF bottleneck.type = "memory"
    THEN << [priority |-> "high", category |-> "memory",
             issue |-> [phase |-> bottleneck.phase,
                        says  |-> "High memory usage",
                        value |-> Fixed(bottleneck.value, 2)],
             strategies |-> memory_strategies] >>
    ELSE <<>>

\* generate_recommendations(bottlenecks, timing_data); timing_data is not
\* read.
RECURSIVE RecommendFrom(_, _)
RecommendFrom(bottlenecks, i) ==
    IF i > Len(bottlenecks) THEN <<>>
    ELSE recommendation_for(bottlenecks[i]) \o RecommendFrom(bottlenecks, i + 1)

\* A variant without the entry for a run that found no bottleneck.
generate_recommendations_unless_empty(bottlenecks) ==
    RecommendFrom(bottlenecks, 1)

generate_recommendations(bottlenecks) ==
    IF bottlenecks = <<>>
    THEN << [priority |-> "low", category |-> "general",
             issue |-> [phase |-> <<>>,
                        says  |-> "No significant bottlenecks detected",
                        value |-> 0],
             strategies |-> balanced_strategies] >>
    ELSE RecommendFrom(bottlenecks, 1)

\* str.upper() of a severity or priority, of a category.
Upper(label) ==
    CASE label = "high"     -> "HIGH"
      [] label = "medium"   -> "MEDIUM"
      [] label = "low"      -> "LOW"
      [] label = "solver"   -> "SOLVER"
      [] label = "assembly" -> "ASSEMBLY"
      [] label = "io"       -> "IO"
      [] label = "general"  -> "GENERAL"
      [] label = "parallel" -> "PARALLEL"
      [] label = "memory"   -> "MEMORY"

\* The JSON document main prints under --json (lines 304-315).
detector_json(args, bottlenecks, recommendations) ==
    [inputs  |-> [timing_file  |-> "timing",
                  scaling_file |-> IF args.scaling = None THEN Null ELSE "scaling",
                  memory_file  |-> IF args.memory = None THEN Null ELSE "memory"],
     results |-> [bottlenecks |-> bottlenecks,
                  recommendations |-> recommendations]]

\* The text report (lines 317-334).
detector_text(bottlenecks, recommendations) ==
    [bottlenecks |->
        [i \in 1..Len(bottlenecks) |->
            [severity |-> Upper(bottlenecks[i].severity),
             phase    |-> bottlenecks[i].phase,
             metric   |-> bottlenecks[i].metric,
             value    |-> Fixed(bottlenecks[i].value, 2)]],
     recommendations |->
        [i \in 1..Len(recommendations) |->
            [priority   |-> Upper(recommendations[i].priority),
             category   |-> Upper(recommendations[i].category),
             issue      |-> recommendations[i].issue,
             strategies |-> recommendations[i].strategies]]]

\* ------------------------------------------------------------------------
\* State
\* ------------------------------------------------------------------------

VARIABLES
    tool,            \* the script this process runs
    pc,              \* where main() stands
    args,            \* the parsed command line, files given by their content
    entries,         \* timing_analyzer.main: entries
    aggregated,      \* timing_analyzer.main: aggregated
    runs,            \* scaling_analyzer.main: runs
    analysis,        \* scaling_analyzer.main: analysis
    params,          \* memory_profiler.main: params
    profile,         \* memory_profiler.main: profile
    results,         \* bottleneck_detector.main: results
    bottlenecks,     \* bottleneck_detector.main: bottlenecks
    recommendations, \* bottleneck_detector.main: recommendations
    stdout,          \* what the process has printed to standard output
    stderr,          \* what it has printed to standard error
    exit_code,       \* the exit status, Running until the process ends
    fs               \* the files the tools' outputs are redirected to

vars == <<tool, pc, args, entries, aggregated, runs, analysis, params, profile,
          results, bottlenecks, recommendations, stdout, stderr, exit_code, fs>>

timingVars   == <<entries, aggregated>>
scalingVars  == <<runs, analysis>>
memoryVars   == <<params, profile>>
detectorVars == <<results, bottlenecks, recommendations>>

Running == -1

NoFiles == [log |-> None, data |-> None, params |-> None,
            timing |-> None, scaling |-> None, memory |-> None]

\* The locals of every main() before it has assigned them.
InitLocals ==
    /\ entries = <<>>
    /\ aggregated = <<>>
    /\ runs = <<>>
    /\ analysis = None
    /\ params = None
    /\ profile = None
    /\ results = None
    /\ bottlenecks = <<>>
    /\ recommendations = <<>>
    /\ stdout = <<>>
    /\ stderr = <<>>
    /\ exit_code = Running

\* except (FileNotFoundError, ValueError): the error goes to stdout as JSON
\* under --json and to stderr otherwise, exit status 1
\* (timing_analyzer.py lines 182-187, and alike in every script).
ReportError(error) ==
    /\ IF args.json
       THEN stdout' = Append(stdout, [format |-> "json", doc |-> [error |-> error]])
            /\ UNCHANGED stderr
       ELSE stderr' = Append(stderr, [error |-> error])
            /\ UNCHANGED stdout
    /\ exit_code' = 1
    /\ pc' = "done"

\* except Exception: the same with the message 'Unexpected error: ...' and
\* the script's exit status for it (scaling_analyzer.py lines 222-227,
\* memory_profiler.py lines 203-208).
ReportUnexpected(error, status) ==
    /\ IF args.json
       THEN stdout' = Append(stdout, [format |-> "json",
                              doc |-> [error |-> "Unexpected error: " \o error]])
            /\ UNCHANGED stderr
       ELSE stderr' = Append(stderr, [error |-> "Unexpected error: " \o error])
            /\ UNCHANGED stdout
    /\ exit_code' = status
    /\ pc' = "done"

\* ------------------------------------------------------------------------
\* timing_analyzer.main
\* ------------------------------------------------------------------------

\* entries = parse_timing_log(args.log, args.pattern)             (line 136)
TA_Parse ==
    /\ tool = "timing" /\ pc = "start"
    /\ LET r == parse_timing_log(args.log, args.pattern) IN
       IF r.status = "ok"
       THEN /\ entries' = r.entries
            /\ stderr' = IF r.malformed_count > 0
                         THEN Append(stderr, [warning |-> "malformed",
                                              count |-> r.malformed_count])
                         ELSE stderr
            /\ pc' = "parsed"
            /\ UNCHANGED <<stdout, exit_code>>
       ELSE /\ ReportError(r.status)
            /\ UNCHANGED entries
    /\ UNCHANGED <<tool, args, aggregated, scalingVars, memoryVars,
                   detectorVars, fs>>

\* aggregated = aggregate_timings(entries)                         (line 139)
TA_Aggregate ==
    /\ tool = "timing" /\ pc = "parsed"
    /\ aggregated' = aggregate_timings(entries)
    /\ pc' = "aggregated"
    /\ UNCHANGED <<tool, args, entries, scalingVars, memoryVars, detectorVars,
                   stdout, stderr, exit_code, fs>>

\* slowest, total_time and the report                         (lines 142-180)
TA_Report ==
    /\ tool = "timing" /\ pc = "aggregated"
    /\ stdout' = Append(stdout,
          IF args.json
          THEN [format |-> "json", doc |-> timing_json(args, aggregated)]
          ELSE [format |-> "text", doc |-> timing_text(aggregated)])
    /\ exit_code' = 0
    /\ pc' = "done"
    /\ UNCHANGED <<tool, args, timingVars, scalingVars, memoryVars,
                   detectorVars, stderr, fs>>

TimingNext == TA_Parse \/ TA_Aggregate \/ TA_Report

\* ------------------------------------------------------------------------
\* scaling_analyzer.main
\* ------------------------------------------------------------------------

\* runs = load_scaling_data(args.data)                             (line 181)
SA_Load ==
    /\ tool = "scaling" /\ pc = "start"
    /\ LET r == load_scaling_data(args.data) IN
       IF r.status = "ok"
       THEN /\ runs' = r.runs
            /\ pc' = "loaded"
            /\ UNCHANGED <<stdout, stderr, exit_code>>
       ELSE /\ IF r.status = "TypeError"
               THEN ReportUnexpected(r.status, 3)
               ELSE ReportError(r.status)
            /\ UNCHANGED runs
    /\ UNCHANGED <<tool, args, timingVars, analysis, memoryVars,
                   detectorVars, fs>>

\* analysis = compute_strong_scaling(runs) or compute_weak_scaling(runs)
SA_Compute ==                                            \* (lines 184-187)
    /\ tool = "scaling" /\ pc = "loaded"
    /\ analysis' = IF args.type = "strong"
                   THEN Some(compute_strong_scaling(runs))
                   ELSE Some(compute_weak_scaling(runs))
    /\ pc' = "computed"
    /\ UNCHANGED <<tool, args, timingVars, runs, memoryVars, detectorVars,
                   stdout, stderr, exit_code, fs>>

\* The report                                                 (lines 190-215)
SA_Report ==
    /\ tool = "scaling" /\ pc = "computed"
    /\ stdout' = Append(stdout,
          IF args.json
          THEN [format |-> "json", doc |-> scaling_json(args, analysis[1])]
          ELSE [format |-> "text", doc |-> scaling_text(analysis[1])])
    /\ exit_code' = 0
    /\ pc' = "done"
    /\ UNCHANGED <<tool, args, timingVars, scalingVars, memoryVars,
                   detectorVars, stderr, fs>>

ScalingNext == SA_Load \/ SA_Compute \/ SA_Report

\* ------------------------------------------------------------------------
\* memory_profiler.main
\* ------------------------------------------------------------------------

\* params = load_parameters(args.params)                           (line 168)
MP_Load ==
    /\ tool = "memory" /\ pc = "start"
    /\ LET r == load_parameters(args.params) IN
       IF r.status = "ok"
       THEN /\ params' = Some(r.params)
            /\ pc' = "loaded"
            /\ UNCHANGED <<stdout, stderr, exit_code>>
       ELSE /\ ReportError(r.status)
            /\ UNCHANGED params
    /\ UNCHANGED <<tool, args, timingVars, scalingVars, profile,
                   detectorVars, fs>>

\* profile = compute_total_memory(params, args.available_gb)       (line 171)
MP_Compute ==
    /\ tool = "memory" /\ pc = "loaded"
    /\ LET r == compute_total_memory(params[1], args.available_gb) IN
       IF r.status = "ok"
       THEN /\ profile' = Some(r.profile)
            /\ pc' = "computed"
            /\ UNCHANGED <<stdout, stderr, exit_code>>
       ELSE /\ IF r.status = "TypeError"
               THEN ReportUnexpected(r.status, 1)
               ELSE ReportError(r.status)
            /\ UNCHANGED profile
    /\ UNCHANGED <<tool, args, timingVars, scalingVars, params,
                   detectorVars, fs>>

\* The report                                                 (lines 174-195)
MP_Report ==
    /\ tool = "memory" /\ pc = "computed"
    /\ stdout' = Append(stdout,
          IF args.json
          THEN [format |-> "json", doc |-> memory_json(args, profile[1])]
          ELSE [format |-> "text", doc |-> memory_text(profile[1])])
    /\ exit_code' = 0
    /\ pc' = "done"
    /\ UNCHANGED <<tool, args, timingVars, scalingVars, memoryVars,
                   detectorVars, stderr, fs>>

MemoryNext == MP_Load \/ MP_Compute \/ MP_Report

\* ------------------------------------------------------------------------
\* bottleneck_detector.main
\* ------------------------------------------------------------------------

\* results = load_analysis_results(args.timing, args.scaling, args.memory)
BD_Load ==                                                    \* (line 285)
    /\ tool = "detector" /\ pc = "start"
    /\ LET r == load_analysis_results(args.timing, args.scaling, args.memory) IN
       IF r.status = "ok"
       THEN /\ results' = Some(r.results)
            /\ stderr' = stderr \o r.warnings
            /\ pc' = "loaded"
            /\ UNCHANGED <<stdout, exit_code>>
       ELSE /\ IF args.json                             \* (lines 336-341)
               THEN /\ stdout' = Append(stdout, [format |-> "json",
                                                 doc |-> [error |-> r.status]])
                    /\ stderr' = stderr \o r.warnings
               ELSE /\ stderr' = stderr \o r.warnings
                                        \o << [error |-> r.status] >>
                    /\ UNCHANGED stdout
            /\ exit_code' = 1
            /\ pc' = "done"
            /\ UNCHANGED results
    /\ UNCHANGED <<tool, args, timingVars, scalingVars, memoryVars,
                   bottlenecks, recommendations, fs>>

\* The three detectors, each with its default threshold, in the order
\* timing, scaling, memory                                    (lines 288-297)
BD_Detect ==
    /\ tool = "detector" /\ pc = "loaded"
    /\ bottlenecks' =
          (IF results[1].timing # None
           THEN detect_timing_bottlenecks(results[1].timing[1],
                                          timing_threshold_default)
           ELSE <<>>)
          \o (IF results[1].scaling # None
              THEN detect_scaling_bottlenecks(results[1].scaling[1],
                                              scaling_threshold_default)
              ELSE <<>>)
          \o (IF results[1].memory # None
              THEN detect_memory_bottlenecks(results[1].memory[1],
                                             memory_threshold_default)
              ELSE <<>>)
    /\ pc' = "detected"
    /\ UNCHANGED <<tool, args, timingVars, scalingVars, memoryVars, results,
                   recommendations, stdout, stderr, exit_code, fs>>

\* recommendations = generate_recommendations(bottlenecks, ...)    (line 300)
BD_Recommend ==
    /\ tool = "detector" /\ pc = "detected"
    /\ recommendations' = generate_recommendations(bottlenecks)
    /\ pc' = "recommended"
    /\ UNCHANGED <<tool, args, timingVars, scalingVars, memoryVars, results,
                   bottlenecks, stdout, stderr, exit_code, fs>>

\* The report                                                 (lines 303-334)
BD_Report ==
    /\ tool = "detector" /\ pc = "recommended"
    /\ stdout' = Append(stdout,
          IF args.json
          THEN [format |-> "json",
                doc |-> detector_json(args, bottlenecks, recommendations)]
          ELSE [format |-> "text",
                doc |-> detector_text(bottlenecks, recommendations)])
    /\ exit_code' = 0
    /\ pc' = "done"
    /\ UNCHANGED <<tool, args, timingVars, scalingVars, memoryVars,
                   detectorVars, stderr, fs>>

DetectorNext == BD_Load \/ BD_Detect \/ BD_Recommend \/ BD_Report

\* ------------------------------------------------------------------------
\* The pipeline: each tool run with --json and its standard output
\* redirected to a file, which the bottleneck detector is then given
\* ------------------------------------------------------------------------

\* The file `tool --json > file` leaves: the one document the tool printed.
Redirected(out) ==
    [exists |-> TRUE, utf8 |-> TRUE, json |-> TRUE, doc |-> out[1].doc]

ResetLocals ==
    /\ entries' = <<>>
    /\ aggregated' = <<>>
    /\ runs' = <<>>
    /\ analysis' = None
    /\ params' = None
    /\ profile' = None
    /\ results' = None
    /\ bottlenecks' = <<>>
    /\ recommendations' = <<>>
    /\ stdout' = <<>>
    /\ stderr' = <<>>
    /\ exit_code' = Running

\* The timing analyzer has ended; the scaling analyzer is run next.
Shell_RunScaling ==
    /\ tool = "timing" /\ pc = "done"
    /\ fs' = [fs EXCEPT !.timing = Some(Redirected(stdout))]
    /\ tool' = "scaling" /\ pc' = "start"
    /\ \E type \in {"strong", "weak"} :
          args' = [data |-> fs.data[1], type |-> type, json |-> TRUE]
    /\ ResetLocals

\* The scaling analyzer has ended; the memory profiler is run next.
Shell_RunMemory ==
    /\ tool = "scaling" /\ pc = "done"
    /\ fs' = [fs EXCEPT !.scaling = Some(Redirected(stdout))]
    /\ tool' = "memory" /\ pc' = "start"
    /\ \E available_gb \in {None, Some(FromRat(1, 100))} :
          args' = [params |-> fs.params[1], available_gb |-> available_gb,
                   json |-> TRUE]
    /\ ResetLocals

\* The memory profiler has ended; the detector is given the three files.
Shell_RunDetector ==
    /\ tool = "memory" /\ pc = "done"
    /\ fs' = [fs EXCEPT !.memory = Some(Redirected(stdout))]
    /\ tool' = "detector" /\ pc' = "start"
    /\ \E json \in BOOLEAN :
          args' = [timing |-> fs.timing[1], scaling |-> fs.scaling,
                   memory |-> fs'.memory, json |-> json]
    /\ ResetLocals

PipelineNext ==
    \/ TimingNext \/ ScalingNext \/ MemoryNext \/ DetectorNext
    \/ Shell_RunScaling \/ Shell_RunMemory \/ Shell_RunDetector

\* ------------------------------------------------------------------------
\* Inputs of the timing analyzer
\* ------------------------------------------------------------------------

\* Longest log, in lines.
MaxLines == 3

\* Sample lines, each with what the four default patterns and two custom
\* patterns find in it:
\*   kv   (?:(\w+)=)?(-?[\d.]+)    group 1 is optional
\*   eq   =([\d.]+)                a single group
\* 'Phase: a , Time: 2s'
Line_PhaseTime ==
    [blank |-> FALSE, keyword |-> TRUE,
     found |-> [PhaseTime |-> Match(<<<<"a", " ">>, <<"2">>>>),
               Took |-> NoMatch,
               Bracket |-> NoMatch,
               TimeFor |-> NoMatch,
               kv |-> Match(<<NoGroup, <<"2">>>>),
               eq |-> NoMatch]]

\* 'b took 0.5 s'
Line_Took ==
    [blank |-> FALSE, keyword |-> TRUE,
     found |-> [PhaseTime |-> NoMatch,
               Took |-> Match(<<<<"b">>, <<"0", ".", "5">>>>),
               Bracket |-> NoMatch,
               TimeFor |-> NoMatch,
               kv |-> Match(<<NoGroup, <<"0", ".", "5">>>>),
               eq |-> NoMatch]]

\* 'Phase: a, Time: 1.2.3s [b]: 2 s'
Line_BadThenBracket ==
    [blank |-> FALSE, keyword |-> TRUE,
     found |-> [PhaseTime |-> Match(<<<<"a">>, <<"1", ".", "2", ".", "3">>>>),
               Took |-> NoMatch,
               Bracket |-> Match(<<<<"b">>, <<"2">>>>),
               TimeFor |-> NoMatch,
               kv |-> Match(<<NoGroup, <<"1", ".", "2", ".", "3">>>>),
               eq |-> NoMatch]]

\* '[a]: 1 s Time for b: 3'
Line_BracketAndTimeFor ==
    [blank |-> FALSE, keyword |-> TRUE,
     found |-> [PhaseTime |-> NoMatch,
               Took |-> NoMatch,
               Bracket |-> Match(<<<<"a">>, <<"1">>>>),
               TimeFor |-> Match(<<<<"b">>, <<"3">>>>),
               kv |-> Match(<<NoGroup, <<"1">>>>),
               eq |-> NoMatch]]

\* ''
Line_Blank ==
    [blank |-> TRUE, keyword |-> FALSE,
     found |-> [PhaseTime |-> NoMatch,
               Took |-> NoMatch,
               Bracket |-> NoMatch,
               TimeFor |-> NoMatch,
               kv |-> NoMatch,
               eq |-> NoMatch]]

\* 'total time unknown'
Line_Keyword ==
    [blank |-> FALSE, keyword |-> TRUE,
     found |-> [PhaseTime |-> NoMatch,
               Took |-> NoMatch,
               Bracket |-> NoMatch,
               TimeFor |-> NoMatch,
               kv |-> NoMatch,
               eq |-> NoMatch]]

\* 'b=-1'
Line_Negative ==
    [blank |-> FALSE, keyword |-> FALSE,
     found |-> [PhaseTime |-> NoMatch,
               Took |-> NoMatch,
               Bracket |-> NoMatch,
               TimeFor |-> NoMatch,
               kv |-> Match(<<<<"b">>, <<"-", "1">>>>),
               eq |-> NoMatch]]

\* 'a=3'
Line_KeyValue ==
    [blank |-> FALSE, keyword |-> FALSE,
     found |-> [PhaseTime |-> NoMatch,
               Took |-> NoMatch,
               Bracket |-> NoMatch,
               TimeFor |-> NoMatch,
               kv |-> Match(<<<<"a">>, <<"3">>>>),
               eq |-> Match(<<<<"3">>>>)]]


SampleLines ==
    {Line_PhaseTime, Line_Took, Line_BadThenBracket, Line_BracketAndTimeFor,
     Line_Blank, Line_Keyword, Line_Negative, Line_KeyValue}

RECURSIVE SeqsUpTo(_, _)
SeqsUpTo(S, n) ==
    IF n = 0 THEN {<<>>}
    ELSE LET shorter == SeqsUpTo(S, n - 1) IN
         shorter \cup {Append(q, x) : q \in shorter, x \in S}

NoFile == [exists |-> FALSE, lines |-> <<>>]
File(lines) == [exists |-> TRUE, lines |-> lines]

LogFiles == {NoFile} \cup {File(l) : l \in SeqsUpTo(SampleLines, MaxLines)}

\* --pattern: absent, empty, or one of the two custom patterns.
Patterns == {Null, "", "kv", "eq"}

InitTiming ==
    /\ tool = "timing"
    /\ pc = "start"
    /\ args \in [log : LogFiles, pattern : Patterns, json : BOOLEAN]
    /\ fs = NoFiles
    /\ InitLocals

SpecTiming == InitTiming /\ [][TimingNext]_vars

\* Logs for the aggregation: every line reads '[<phase>]: <time> s'.
MaxEntries == 4

PhaseNames == {<<"a">>, <<"b">>}

TimeTexts == {<<"0">>, <<"0", ".", "2">>, <<"0", ".", "3">>, <<"0", ".", "9">>}

BracketLine(phase, text) ==
    [blank |-> FALSE, keyword |-> FALSE,
     found |-> [PhaseTime |-> NoMatch,
                Took      |-> NoMatch,
                Bracket   |-> Match(<<phase, text>>),
                TimeFor   |-> NoMatch,
                kv        |-> Match(<<NoGroup, text>>),
                eq        |-> NoMatch]]

BracketLines == {BracketLine(p, t) : p \in PhaseNames, t \in TimeTexts}

InitAggregate ==
    /\ tool = "timing"
    /\ pc = "start"
    /\ args \in [log     : {File(l) : l \in SeqsUpTo(BracketLines, MaxEntries)},
                 pattern : {Null},
                 json    : {TRUE}]
    /\ fs = NoFiles
    /\ InitLocals

SpecAggregate == InitAggregate /\ [][TimingNext]_vars

\* ------------------------------------------------------------------------
\* Inputs of the scaling analyzer
\* ------------------------------------------------------------------------

\* Most runs in a scaling data file.
MaxRuns == 3

ProcessorCounts == {1, 2, 3}
RunTimes == {FromInt(3), FromInt(7), FromInt(10)}

ValidRuns == [processors : ProcessorCounts, time : RunTimes]

InvalidRuns ==
    {[time |-> FromInt(3)],
     [processors |-> 2],
     [processors |-> 1, time |-> FZero],
     [processors |-> 2, time |-> JsonNull],
     [processors |-> 0, time |-> FromInt(3)]}

ScalingFiles ==
    {[exists |-> FALSE, utf8 |-> FALSE, json |-> FALSE, doc |-> [other |-> 0]],
     [exists |-> TRUE, utf8 |-> FALSE, json |-> FALSE, doc |-> [other |-> 0]],
     [exists |-> TRUE, utf8 |-> TRUE, json |-> FALSE, doc |-> [other |-> 0]],
     [exists |-> TRUE, utf8 |-> TRUE, json |-> TRUE, doc |-> [other |-> 0]]}
    \cup {[exists |-> TRUE, utf8 |-> TRUE, json |-> TRUE, doc |-> [runs |-> r]] :
             r \in SeqsUpTo(ValidRuns \cup InvalidRuns, MaxRuns)}

InitScaling ==
    /\ tool = "scaling"
    /\ pc = "start"
    /\ args \in [data : ScalingFiles, type : {"strong", "weak"}, json : BOOLEAN]
    /\ fs = NoFiles
    /\ InitLocals

SpecScaling == InitScaling /\ [][ScalingNext]_vars

\* ------------------------------------------------------------------------
\* Inputs of the bottleneck detector
\* ------------------------------------------------------------------------
MaxPhases == 2

\* A file given where JSON is expected: absent, bytes that are not UTF-8
\* text, text that is not JSON, or a JSON document.
MissingJson ==
    [exists |-> FALSE, utf8 |-> FALSE, json |-> FALSE, doc |-> [other |-> 0]]
BinaryFile ==
    [exists |-> TRUE, utf8 |-> FALSE, json |-> FALSE, doc |-> [other |-> 0]]
BadJson ==
    [exists |-> TRUE, utf8 |-> TRUE, json |-> FALSE, doc |-> [other |-> 0]]
JsonFile(doc) ==
    [exists |-> TRUE, utf8 |-> TRUE, json |-> TRUE, doc |-> doc]

DetectorPhaseNames == {<<"S", "o", "l", "v", "e">>, <<"m", "e", "s", "h">>}
Percentages == {FromInt(50), FromInt(60), FromInt(70), FromInt(80)}

\* A phase of a timing document: its percentage may be missing.
DetectorPhases ==
    [name : DetectorPhaseNames, percentage : Percentages]
    \cup [name : DetectorPhaseNames]

TimingDocs ==
    {[timing_data |-> [phases |-> p]] : p \in SeqsUpTo(DetectorPhases, MaxPhases)}
    \cup {[timing_data |-> [total_time |-> FZero]],
          [results |-> [phases |-> << [name |-> <<"m", "e", "s", "h">>,
                                       percentage |-> FromInt(80)] >>]],
          [error |-> "ValueError"]}

SomeTimingDocs ==
    {[timing_data |-> [phases |-> <<>>]],
     [timing_data |->
        [phases |-> << [name |-> <<"S", "o", "l", "v", "e">>,
                        percentage |-> FromInt(80)],
                       [name |-> <<"m", "e", "s", "h">>,
                        percentage |-> FromInt(60)] >>]]}

Efficiencies ==
    {FromRat(3, 10), FromRat(1, 2), FromRat(6, 10), FromRat(7, 10), FromRat(9, 10)}

ScalingDocs ==
    {[scaling_analysis |-> [average_efficiency |-> e]] : e \in Efficiencies}
    \cup {[scaling_analysis |-> [type |-> "strong"]],
          [results |-> [average_efficiency |-> FromRat(3, 10)]]}

MemoryWarning == [says |-> "exceeds available memory", total |-> 150,
                  available |-> 100]
MemoryAmounts == {FromRat(3, 2), FromInt(64)}

MemoryDocs ==
    {[memory_profile |-> [warnings |-> w, total_memory_gb |-> g]] :
        w \in {<<>>, <<MemoryWarning>>}, g \in MemoryAmounts}
    \cup {[memory_profile |-> [total_memory_gb |-> g]] : g \in MemoryAmounts}
    \cup {[memory_profile |-> [warnings |-> <<MemoryWarning>>]],
          [results |-> [warnings |-> <<MemoryWarning>>,
                        total_memory_gb |-> FromInt(64)]]}

\* An optional file: not given, missing, not text, not JSON, or one of
\* docs.
Optional(docs) ==
    {None, Some(MissingJson), Some(BinaryFile), Some(BadJson)}
    \cup {Some(JsonFile(d)) : d \in docs}

\* Every timing document alone, and every pair of a scaling and a memory
\* file beside a few timing documents.
DetectorArgs ==
    [timing  : {MissingJson, BinaryFile, BadJson}
                  \cup {JsonFile(d) : d \in TimingDocs},
     scaling : {None}, memory : {None}, json : BOOLEAN]
    \cup [timing  : {JsonFile(d) : d \in SomeTimingDocs},
          scaling : Optional(ScalingDocs), memory : Optional(MemoryDocs),
          json    : BOOLEAN]

InitDetect ==
    /\ tool = "detector"
    /\ pc = "start"
    /\ args \in DetectorArgs
    /\ fs = NoFiles
    /\ InitLocals

SpecDetect == InitDetect /\ [][DetectorNext]_vars

\* ------------------------------------------------------------------------
\* Inputs of the bottleneck detector: phase names for generate_recommendations
\* ------------------------------------------------------------------------

\* Names for every branch of lines 185-237 and for each precedence between
\* two keyword lists: 'Linear Solve', 'Matrix Assembly', 'Write Output', 'IO', 'Initialization', 'Mesh Partition',
\* 'Solve and Write', 'Build Output', 'Assemble Solver', 'Meshing', 'Save Checkpoint', 'Communication'.
ClassifyPhaseNames ==
    {<<"L", "i", "n", "e", "a", "r", " ", "S", "o", "l", "v", "e">>,
     <<"M", "a", "t", "r", "i", "x", " ", "A", "s", "s", "e", "m", "b", "l", "y">>,
     <<"W", "r", "i", "t", "e", " ", "O", "u", "t", "p", "u", "t">>,
     <<"I", "O">>,
     <<"I", "n", "i", "t", "i", "a", "l", "i", "z", "a", "t", "i", "o", "n">>,
     <<"M", "e", "s", "h", " ", "P", "a", "r", "t", "i", "t", "i", "o", "n">>,
     <<"S", "o", "l", "v", "e", " ", "a", "n", "d", " ", "W", "r", "i", "t", "e">>,
     <<"B", "u", "i", "l", "d", " ", "O", "u", "t", "p", "u", "t">>,
     <<"A", "s", "s", "e", "m", "b", "l", "e", " ", "S", "o", "l", "v", "e", "r">>,
     <<"M", "e", "s", "h", "i", "n", "g">>,
     <<"S", "a", "v", "e", " ", "C", "h", "e", "c", "k", "p", "o", "i", "n", "t">>,
     <<"C", "o", "m", "m", "u", "n", "i", "c", "a", "t", "i", "o", "n">>}

\* A timing document with one phase over the threshold.
ClassifyDocs ==
    {[timing_data |-> [phases |-> << [name |-> n, percentage |-> p] >>]] :
        n \in ClassifyPhaseNames, p \in {FromInt(60), FromInt(80)}}

InitClassify ==
    /\ tool = "detector"
    /\ pc = "start"
    /\ args \in [timing  : {JsonFile(d) : d \in ClassifyDocs},
                 scaling : {None}, memory : {None}, json : BOOLEAN]
    /\ fs = NoFiles
    /\ InitLocals

SpecClassify == InitClassify /\ [][DetectorNext]_vars

\* ------------------------------------------------------------------------
\* Inputs of the memory profiler
\* ------------------------------------------------------------------------
MaxFields == 2

\* Meshes with one, two, three or no dimension given, and with a dimension
\* that is zero, negative, a float or null.
Meshes ==
    {[nx |-> PyInt(4)],
     [nx |-> PyInt(4), ny |-> PyInt(2)],
     [nx |-> PyInt(4), ny |-> PyInt(2), nz |-> PyInt(2)],
     [ny |-> PyInt(3)],
     [nx |-> PyInt(0)],
     [nx |-> PyInt(4), ny |-> PyInt(-1)],
     [nx |-> PyInt(4), nz |-> FromInt(2)],
     [nx |-> JsonNull],
     [nx |-> PyInt(4), nz |-> JsonNull]}

\* Field definitions: defaults, components and bytes_per_value given, and
\* values that are zero, a float or null.
FieldSpecs ==
    {[type |-> "scalar"],
     [components |-> PyInt(3)],
     [components |-> PyInt(3), bytes_per_value |-> PyInt(4)],
     [bytes_per_value |-> FromRat(1, 2)],
     [components |-> PyInt(0)],
     [components |-> FromInt(2)],
     [bytes_per_value |-> PyInt(0)],
     [bytes_per_value |-> JsonNull]}

FieldNames == <<"u", "v", "w", "p">>

\* The items of a 'fields' dictionary of up to MaxFields fields.
FieldLists ==
    {[i \in 1..Len(specs) |-> [name |-> FieldNames[i], spec |-> specs[i]]] :
        specs \in SeqsUpTo(FieldSpecs, MaxFields)}

Solvers ==
    {[type |-> "direct"],
     [type |-> "iterative", workspace_multiplier |-> PyInt(2)],
     [workspace_multiplier |-> PyInt(0)],
     [workspace_multiplier |-> PyInt(-5)],
     [workspace_multiplier |-> JsonNull]}

Processors == {PyInt(2), PyInt(0), FromInt(2), JsonNull}

\* The parameter documents: every mesh with every field list, and one mesh
\* and field with every solver and processor count.
ParameterDocs ==
    {[mesh |-> mesh, fields |-> fields] : mesh \in Meshes, fields \in FieldLists}
    \cup
    (LET mesh   == [nx |-> PyInt(4), ny |-> PyInt(2), nz |-> PyInt(2)]
         fields == << [name |-> "u", spec |-> [type |-> "scalar"]] >>
         base   == [mesh |-> mesh, fields |-> fields]
     IN  {base}
         \cup {[mesh |-> mesh, fields |-> fields, solver |-> s] : s \in Solvers}
         \cup {[mesh |-> mesh, fields |-> fields, processors |-> n] :
                  n \in Processors}
         \cup {[mesh |-> mesh, fields |-> fields, solver |-> s,
                processors |-> n] : s \in Solvers, n \in Processors})

ParameterFiles ==
    {MissingJson, BinaryFile, BadJson,
     JsonFile([other |-> 0]),
     JsonFile([mesh |-> [nx |-> PyInt(4)]]),
     JsonFile([fields |-> <<>>])}
    \cup {JsonFile(d) : d \in ParameterDocs}

\* --available-gb: absent, or an amount below, at, and above the 3 * 2^-22 GB
\* that the 4 x 2 x 2 mesh with one default field and the default solver
\* takes.
AvailableAmounts ==
    {None, Some(FromRat(1, Pow2(22))), Some(FromRat(3, Pow2(22))),
     Some(FromRat(7, Pow2(23))), Some(FromRat(1, Pow2(20)))}

InitMemory ==
    /\ tool = "memory"
    /\ pc = "start"
    /\ args \in [params : ParameterFiles, available_gb : AvailableAmounts,
                 json : BOOLEAN]
    /\ fs = NoFiles
    /\ InitLocals

SpecMemory == InitMemory /\ [][MemoryNext]_vars

\* ------------------------------------------------------------------------
\* Inputs of the pipeline
\* ------------------------------------------------------------------------
PipelineLogs ==
    {NoFile,
     File(<<BracketLine(<<"a">>, <<"0", ".", "9">>)>>),
     File(<<BracketLine(<<"a">>, <<"0", ".", "9">>),
            BracketLine(<<"b">>, <<"0", ".", "2">>)>>),
     File(<<BracketLine(<<"a">>, <<"0", ".", "3">>),
            BracketLine(<<"b">>, <<"0", ".", "3">>)>>)}

PipelineData ==
    {JsonFile([other |-> 0]),
     JsonFile([runs |-> <<[processors |-> 1, time |-> FromInt(10)],
                          [processors |-> 2, time |-> FromInt(10)]>>]),
     JsonFile([runs |-> <<[processors |-> 1, time |-> FromInt(3)],
                          [processors |-> 3, time |-> FromInt(10)]>>])}

PipelineParams ==
    {MissingJson,
     JsonFile([mesh   |-> [nx |-> PyInt(8)],
               fields |-> <<>>,
               processors |-> PyInt(0)]),
     JsonFile([mesh   |-> [nx |-> PyInt(64), ny |-> PyInt(64), nz |-> PyInt(64)],
               fields |-> << [name |-> "u",
                              spec |-> [components |-> PyInt(3)]] >>])}

InitPipeline ==
    /\ tool = "timing"
    /\ pc = "start"
    /\ fs \in {[NoFiles EXCEPT !.log = Some(l), !.data = Some(d),
                               !.params = Some(p)] :
                  l \in PipelineLogs, d \in PipelineData, p \in PipelineParams}
    /\ args = [log |-> fs.log[1], pattern |-> Null, json |-> TRUE]
    /\ InitLocals

SpecPipeline == InitPipeline /\ [][PipelineNext]_vars

\* ========================================================================
\* Claims
\* ========================================================================

\* ------------------------------------------------------------------ C2
\* The patterns parse_timing_log tries: the custom pattern alone when one is
\* supplied (a non-empty --pattern), else the four defaults in list order.
C2_PatternsTried ==
    IF args.pattern # Null /\ args.pattern # ""
    THEN <<args.pattern>>
    ELSE <<"PhaseTime", "Took", "Bracket", "TimeFor">>

\* The pattern matches the line and its second group parses to a number >= 0.
C2_Usable(line, pat) ==
    LET f == line.found[pat] IN
    /\ f.hit
    /\ Len(f.groups) >= 2
    /\ f.groups[2] # NoGroup
    /\ ParseFloat(f.groups[2]).ok
    /\ ~(ParseFloat(f.groups[2]).neg /\ ParseFloat(f.groups[2]).val # FZero)

\* What one line contributes: nothing when blank or when no pattern is
\* usable, else the one entry of the first usable pattern.
C2_Contribution(line) ==
    LET pats == C2_PatternsTried
        good == {j \in 1..Len(pats) : C2_Usable(line, pats[j])}
    IN  IF line.blank \/ good = {} THEN <<>>
        ELSE LET j == CHOOSE k \in good : \A l \in good : k <= l
                 g == line.found[pats[j]].groups
             IN  << <<Strip(g[1]), ParseFloat(g[2]).val>> >>

RECURSIVE C2_Expected(_)
C2_Expected(lines) ==
    IF lines = <<>> THEN <<>>
    ELSE C2_Expected(SubSeq(lines, 1, Len(lines) - 1))
         \o C2_Contribution(lines[Len(lines)])

\* C2: when parse_timing_log returns, its entries are, in the order of the
\* lines of the log, at most one entry per non-blank line: the one of the
\* first pattern, in the order tried, that matches the line and whose second
\* group parses to a number >= 0; a supplied custom pattern is the only
\* pattern tried.
C2_ParseFirstUsablePattern ==
    (tool = "timing" /\ pc = "parsed") =>
        entries = C2_Expected(args.log.lines)

\* A log parsed with the default patterns whose first line matches the first
\* pattern with an unparsable number and falls through to the third, and
\* whose last line matches two patterns, the earlier one winning.
C2_Witness ==
    /\ tool = "timing" /\ pc = "parsed"
    /\ args.pattern = Null
    /\ args.log.lines = <<Line_BadThenBracket, Line_Blank, Line_BracketAndTimeFor>>
    /\ entries = << <<(<<"b">>), FromInt(2)>>, <<(<<"a">>), FromInt(1)>> >>

\* ------------------------------------------------------------------ C3
\* The times of the entries of one phase, in entry order.
C3_TimesOf(name) ==
    LET OfPhase(e) == e[1] = name
        sel == SelectSeq(entries, OfPhase)
    IN  [i \in 1..Len(sel) |-> sel[i][2]]

RECURSIVE C3_SumCounts(_)
C3_SumCounts(recs) ==
    IF recs = <<>> THEN 0 ELSE recs[1].count + C3_SumCounts(Tail(recs))

\* C3: aggregate_timings returns one record per distinct phase of the
\* entries, with count the number of entries of the phase, total_time the
\* sum of their times and min_time <= mean_time <= max_time; the counts sum
\* to the number of entries and the total_time values sum to the sum of all
\* entry times (the total main reports, line 145, against the total of line
\* 90); no entries give no records.  Sums are Python's sum().
C3_AggregateStatistics ==
    (tool = "timing" /\ pc = "aggregated") =>
        LET names == {entries[i][1] : i \in 1..Len(entries)} IN
        /\ Len(aggregated) = Cardinality(names)
        /\ {aggregated[i].name : i \in 1..Len(aggregated)} = names
        /\ \A i \in 1..Len(aggregated) :
              LET r == aggregated[i] IN
              /\ r.count = Cardinality({k \in 1..Len(entries) :
                                           entries[k][1] = r.name})
              /\ r.total_time = FSum(C3_TimesOf(r.name))
              /\ FLe(r.min_time, r.mean_time)
              /\ FLe(r.mean_time, r.max_time)
        /\ C3_SumCounts(aggregated) = Len(entries)
        /\ FSum([i \in 1..Len(aggregated) |-> aggregated[i].total_time])
              = FSum([i \in 1..Len(entries) |-> entries[i][2]])
        /\ (entries = <<>> => aggregated = <<>>)

\* ------------------------------------------------------------------ C4
\* The exact (unrounded) sum of the floats xs equals the integer n.
RECURSIVE ExactScaledSum(_, _)
ExactScaledSum(xs, lo) ==
    IF xs = <<>> THEN 0
    ELSE xs[1].m * Pow2(xs[1].e - lo) + ExactScaledSum(Tail(xs), lo)

RECURSIVE MinExponent(_)
MinExponent(xs) ==
    IF xs = <<>> THEN 0 ELSE Min2(xs[1].e, MinExponent(Tail(xs)))

ExactSumIs(xs, n) ==
    LET lo == MinExponent(xs) IN ExactScaledSum(xs, lo) = n * Pow2(0 - lo)

\* C4: with a positive sum of entry times every percentage is
\* 100 * total_time / (sum of entry times) as line 100 computes it, the
\* percentages sum to 100 (exactly, or at least as Python's sum() adds them)
\* and at most one phase lies above 50; with a zero sum every percentage is
\* 0.0.
C4_Percentages ==
    (tool = "timing" /\ pc = "aggregated") =>
        LET total == FSum([i \in 1..Len(entries) |-> entries[i][2]])
            pcts  == [i \in 1..Len(aggregated) |-> aggregated[i].percentage]
        IN  IF FLt(FZero, total)
            THEN /\ \A i \in 1..Len(aggregated) :
                       pcts[i] = FMul(FDiv(aggregated[i].total_time, total),
                                      FromInt(100))
                 /\ ExactSumIs(pcts, 100) \/ FSum(pcts) = FromInt(100)
                 /\ Cardinality({i \in 1..Len(aggregated) :
                                    FLt(FromInt(50), pcts[i])}) <= 1
            ELSE \A i \in 1..Len(aggregated) : pcts[i] = FZero

\* ------------------------------------------------------------------ C5
\* The runs' smallest processor count and the first run, in input order,
\* that has it.
MinProcessors == CHOOSE p \in {runs[k].processors : k \in 1..Len(runs)} :
                    \A k \in 1..Len(runs) : p <= runs[k].processors

FirstMinRun == runs[CHOOSE k \in 1..Len(runs) :
                      /\ runs[k].processors = MinProcessors
                      /\ \A l \in 1..(k - 1) : runs[l].processors # MinProcessors]

\* The place of runs[k] in ascending processor order, runs of equal
\* processor count in input order.
RankOfRun(k) ==
    1 + Cardinality({l \in 1..Len(runs) :
                        \/ runs[l].processors < runs[k].processors
                        \/ (runs[l].processors = runs[k].processors /\ l < k)})

\* |x - (num / den) * 2^e| <= 2^(2 - Precision) * (num / den) * 2^e: the
\* float x is the exact value up to the rounding of a few operations.
WithinRounding(x, num, den, e) ==
    LET lo   == Min2(x.e, e)
        a    == x.m * den * Pow2(x.e - lo)
        b    == num * Pow2(e - lo)
        diff == IF a >= b THEN a - b ELSE b - a
    IN  diff * Pow2(Precision - 2) <= b

\* The parts of the claim that do not involve the closed form: baseline,
\* order, speedup, efficiency = speedup / (N / N_baseline), the baseline's
\* own entry, the average.
C5_StrongShape ==
    LET a == analysis[1]
        b == FirstMinRun
    IN  /\ a.baseline = [processors |-> b.processors, time |-> b.time]
        /\ Len(a.results) = Len(runs)
        /\ \A k \in 1..Len(runs) :
              LET r == a.results[RankOfRun(k)] IN
              /\ r.processors = runs[k].processors
              /\ r.time = runs[k].time
              /\ r.speedup = FDiv(b.time, runs[k].time)
              /\ r.efficiency = FDiv(r.speedup,
                                     FromRat(runs[k].processors, b.processors))
        /\ a.results[1].speedup = FromInt(1)
        /\ a.results[1].efficiency = FromInt(1)
        /\ a.average_efficiency =
              FDiv(FSum([i \in 1..Len(a.results) |-> a.results[i].efficiency]),
                   FromInt(Len(a.results)))

C6_WeakScaling ==
    (tool = "scaling" /\ pc = "computed") =>
        LET w == IF args.type = "weak" THEN analysis[1]
                 ELSE compute_weak_scaling(runs)
            t == IF args.type = "strong" THEN analysis[1]
                 ELSE compute_strong_scaling(runs)
            b == FirstMinRun
        IN  /\ w.baseline = [processors |-> b.processors, time |-> b.time]
            /\ w.baseline = t.baseline
            /\ Len(w.results) = Len(runs)
            /\ \A k \in 1..Len(runs) :
                  LET r == w.results[RankOfRun(k)] IN
                  /\ r.processors = runs[k].processors
                  /\ r.time = runs[k].time
                  /\ r.efficiency = FDiv(b.time, runs[k].time)
                  /\ r.speedup = FMul(r.efficiency,
                                      FromRat(runs[k].processors, b.processors))
            /\ \A i \in 1..Len(runs) :
                  /\ w.results[i].efficiency = t.results[i].speedup
                  /\ FLe(t.results[i].efficiency, w.results[i].efficiency)

\* A weak-scaling analysis whose second run is slower than the baseline on
\* three times the processors: its efficiency lies strictly between its
\* strong efficiency and 1.
C6_Witness ==
    /\ tool = "scaling" /\ pc = "computed" /\ args.type = "weak"
    /\ runs = <<[processors |-> 3, time |-> FromInt(10)],
                [processors |-> 1, time |-> FromInt(7)]>>
    /\ analysis[1].results[2].efficiency = FDiv(FromInt(7), FromInt(10))
    /\ FLt(compute_strong_scaling(runs).results[2].efficiency,
           analysis[1].results[2].efficiency)

\* ------------------------------------------------------------------ C7
\* C7: in both analyses efficiency_threshold_processors is the processor
\* count of the first result, in ascending processor order, whose efficiency
\* is strictly below 0.70, and None exactly when no efficiency is below 0.70;
\* with pairwise distinct processor counts it is never the baseline's.
C7_EfficiencyThreshold ==
    (tool = "scaling" /\ pc = "computed") =>
        LET a     == analysis[1]
            n     == Len(a.results)
            below == {i \in 1..n : FLt(a.results[i].efficiency, FromRat(7, 10))}
            t     == a.efficiency_threshold_processors
        IN  /\ \A i, j \in 1..n :
                  i < j => a.results[i].processors <= a.results[j].processors
            /\ (t = None) <=> (below = {})
            /\ below # {} =>
                  t = Some(a.results[CHOOSE i \in below :
                                        \A j \in below : i <= j].processors)
            /\ (\A k, l \in 1..Len(runs) :
                   k # l => runs[k].processors # runs[l].processors)
                  => t # Some(a.baseline.processors)

\* A weak-scaling analysis with an efficiency of exactly 0.70 (7 s against
\* 10 s) and none below: no threshold is reported.
C7_Witness ==
    /\ tool = "scaling" /\ pc = "computed" /\ args.type = "weak"
    /\ runs = <<[processors |-> 1, time |-> FromInt(7)],
                [processors |-> 2, time |-> FromInt(10)]>>
    /\ analysis[1].results[2].efficiency = FromRat(7, 10)
    /\ analysis[1].efficiency_threshold_processors = None

\* ------------------------------------------------------------------ C8
\* The thresholds a caller may pass: percentages for the timing detector,
\* efficiencies for the scaling detector, fractions for the memory detector.
TimingThresholds  == {FromInt(0), FromInt(50), FromInt(60), FromInt(70),
                      FromInt(80)}
ScalingThresholds == {FromRat(1, 2), FromRat(6, 10), FromRat(7, 10), FromInt(1)}
MemoryThresholds  == {FromRat(1, 2), FromRat(8, 10), FromInt(1)}

Loaded == tool = "detector" /\ results # None
Detected == tool = "detector" /\ pc \in {"detected", "recommended", "done"}
                              /\ results # None

\* The phases of a timing document, none when it has no 'timing_data' or
\* that has no 'phases'.
C8_Phases(doc) ==
    IF Has(doc, "timing_data") /\ Has(doc.timing_data, "phases")
    THEN doc.timing_data.phases ELSE <<>>

\* Whether phases, taken in order, are told by `out` under threshold t: one
\* bottleneck per phase whose percentage is > t, in the phases' order.
C8_Tells(phases, out, t) ==
    LET over == {i \in 1..Len(phases) :
                    Has(phases[i], "percentage") /\ FLt(t, phases[i].percentage)}
        nth(j) == CHOOSE i \in over : Cardinality({k \in over : k <= i}) = j
    IN  /\ Len(out) = Cardinality(over)
        /\ \A j \in 1..Len(out) :
              /\ out[j].type = "timing"
              /\ out[j].phase = phases[nth(j)].name
              /\ out[j].value = phases[nth(j)].percentage
              /\ out[j].threshold = t
              /\ out[j].severity \in {"high", "medium"}
              /\ out[j].severity = "high"
                    <=> FLt(FromInt(70), phases[nth(j)].percentage)

\* C8: detect_timing_bottlenecks returns, in the order of the input phases,
\* exactly one bottleneck for each phase whose percentage is strictly greater
\* than the threshold and none for a phase at the threshold or without a
\* percentage; its severity is 'high' exactly when the percentage is strictly
\* greater than 70, else 'medium'. main applies it with threshold 50.
C8_TimingBottlenecks ==
    /\ Loaded =>
          \A t \in TimingThresholds :
              C8_Tells(C8_Phases(results[1].timing[1]),
                       detect_timing_bottlenecks(results[1].timing[1], t), t)
    /\ Detected =>
          C8_Tells(C8_Phases(results[1].timing[1]),
                   SelectSeq(bottlenecks, LAMBDA b : b.type = "timing"),
                   FromInt(50))

\* Two phases, the first at exactly 50 %, the second at 80 %: only the second
\* is reported, as 'high'.
C8_Witness ==
    /\ tool = "detector" /\ pc = "detected"
    /\ results[1].timing[1] =
          [timing_data |->
              [phases |-> << [name |-> <<"S", "o", "l", "v", "e">>,
                              percentage |-> FromInt(50)],
                             [name |-> <<"m", "e", "s", "h">>,
                              percentage |-> FromInt(80)] >>]]
    /\ Len(bottlenecks) = 1
    /\ bottlenecks[1].phase = <<"m", "e", "s", "h">>
    /\ bottlenecks[1].severity = "high"

\* ------------------------------------------------------------------ C9
\* What `out` must be for a scaling document under threshold t.
C9_Tells(doc, out, t) ==
    LET present == Has(doc, "scaling_analysis")
                   /\ Has(doc.scaling_analysis, "average_efficiency")
        eff     == IF present THEN doc.scaling_analysis.average_efficiency
                   ELSE FromInt(1)
    IN  /\ Len(out) <= 1
        /\ Len(out) = 1 <=> (present /\ FLt(eff, t))
        /\ Len(out) = 1 =>
              /\ out[1].type = "scaling"
              /\ out[1].value = eff
              /\ out[1].threshold = t
              /\ out[1].severity \in {"high", "medium"}
              /\ out[1].severity = "high" <=> FLt(eff, FromRat(1, 2))

\* C9: detect_scaling_bottlenecks returns at most one bottleneck: exactly one
\* when average_efficiency is strictly below the threshold, 'high' exactly
\* when it is strictly below 0.5 and 'medium' otherwise, and none when it is
\* at or above the threshold or absent. main applies it with threshold 0.70.
C9_ScalingBottleneck ==
    /\ (Loaded /\ results[1].scaling # None) =>
          \A t \in ScalingThresholds :
              C9_Tells(results[1].scaling[1],
                       detect_scaling_bottlenecks(results[1].scaling[1], t), t)
    /\ (Detected /\ results[1].scaling # None) =>
          C9_Tells(results[1].scaling[1],
                   SelectSeq(bottlenecks, LAMBDA b : b.type = "scaling"),
                   FromRat(7, 10))
    /\ (Detected /\ results[1].scaling = None) =>
          SelectSeq(bottlenecks, LAMBDA b : b.type = "scaling") = <<>>

\* An average efficiency of exactly 0.5: below the default threshold, and
\* not below 0.5, hence one 'medium' bottleneck.
C9_Witness ==
    /\ tool = "detector" /\ pc = "detected"
    /\ results[1].scaling =
          Some([scaling_analysis |-> [average_efficiency |-> FromRat(1, 2)]])
    /\ \E i \in 1..Len(bottlenecks) :
          /\ bottlenecks[i].type = "scaling"
          /\ bottlenecks[i].severity = "medium"

\* ----------------------------------------------------------------- C10
\* What `out` must be for a memory document, whatever the threshold t.
C10_Tells(doc, out, t) ==
    LET warned == /\ Has(doc, "memory_profile")
                  /\ Has(doc.memory_profile, "warnings")
                  /\ Len(doc.memory_profile.warnings) > 0
    IN  /\ Len(out) = IF warned THEN 1 ELSE 0
        /\ warned =>
              /\ out[1].type = "memory"
              /\ out[1].severity = "high"
              /\ out[1].threshold = t
              /\ out[1].value =
                    IF Has(doc.memory_profile, "total_memory_gb")
                    THEN doc.memory_profile.total_memory_gb ELSE FZero

\* A bottleneck without the threshold it echoes.
C10_Outcome(out) ==
    [i \in 1..Len(out) |->
        [type |-> out[i].type, phase |-> out[i].phase,
         severity |-> out[i].severity, metric |-> out[i].metric,
         value |-> out[i].value]]

C1_PipelineConsumption ==
    (tool = "detector" /\ pc = "detected") =>
        LET t == fs.timing[1].doc
            s == fs.scaling[1].doc
            m == fs.memory[1].doc
            reported(type) == {i \in 1..Len(bottlenecks) :
                                  bottlenecks[i].type = type}
        IN  /\ Has(t, "results") =>
                  \A i \in 1..Len(t.results.phases) :
                      FLt(FromInt(50), t.results.phases[i].percentage) =>
                          \E j \in reported("timing") :
                              bottlenecks[j].phase = t.results.phases[i].name
            /\ (Has(s, "results")
                   /\ FLt(s.results.average_efficiency, FromRat(7, 10))) =>
                  reported("scaling") # {}
            /\ (Has(m, "results") /\ m.results.warnings # <<>>) =>
                  reported("memory") # {}

\* ------------------------------------------------------------------------
\* C11: one recommendation per bottleneck, in the detectors' order
\* ------------------------------------------------------------------------

\* generate_recommendations has returned (a run that failed to load has
\* exit status 1 and never calls it).
Recommended ==
    /\ tool = "detector"
    /\ pc = "recommended" \/ (pc = "done" /\ exit_code = 0)

TypeRank(type) ==
    CASE type = "timing"  -> 1
      [] type = "scaling" -> 2
      [] type = "memory"  -> 3
      [] OTHER            -> 0

\* The recommendation answers the bottleneck: same phase, reported value and
\* a category of the bottleneck's type.
C11_Answers(recommendation, bottleneck) ==
    /\ recommendation.issue.phase = bottleneck.phase
    /\ CASE bottleneck.type = "timing" ->
               /\ recommendation.category
                      \in {"solver", "assembly", "io", "general"}
               /\ recommendation.issue.value = Fixed(bottleneck.value, 1)
          [] bottleneck.type = "scaling" ->
               /\ recommendation.category = "parallel"
               /\ recommendation.issue.value = Fixed(bottleneck.value, 2)
          [] bottleneck.type = "memory" ->
               /\ recommendation.category = "memory"
               /\ recommendation.issue.value = Fixed(bottleneck.value, 2)
          [] OTHER -> FALSE

\* C11: the bottleneck list holds the timing bottlenecks first, then the
\* scaling ones, then the memory ones; generate_recommendations returns one
\* recommendation per bottleneck in the same order, and for an empty list
\* exactly one recommendation of priority 'low' and category 'general', so
\* the recommendation list has max(1, number of bottlenecks) entries and is
\* never empty.
C11_RecommendationPerBottleneck ==
    /\ Detected =>
          /\ \A i \in 1..Len(bottlenecks) : TypeRank(bottlenecks[i].type) > 0
          /\ \A i, j \in 1..Len(bottlenecks) :
                 i < j => TypeRank(bottlenecks[i].type)
                             <= TypeRank(bottlenecks[j].type)
    /\ Recommended =>
          /\ recommendations = generate_recommendations(bottlenecks)
          /\ Len(recommendations) = Max2(1, Len(bottlenecks))
          /\ recommendations # <<>>
          /\ IF bottlenecks = <<>>
             THEN /\ recommendations[1].priority = "low"
                  /\ recommendations[1].category = "general"
             ELSE \A i \in 1..Len(bottlenecks) :
                     C11_Answers(recommendations[i], bottlenecks[i])

\* Two timing bottlenecks, a scaling and a memory one, answered by four
\* recommendations in that order.
C11_Witness ==
    /\ Recommended
    /\ Len(bottlenecks) = 4
    /\ [i \in 1..4 |-> bottlenecks[i].type]
          = <<"timing", "timing", "scaling", "memory">>
    /\ Len(recommendations) = 4
    /\ recommendations[3].category = "parallel"
    /\ recommendations[4].category = "memory"

\* No bottleneck, and the one low-priority general recommendation.
C11_WitnessBalanced ==
    /\ Recommended
    /\ bottlenecks = <<>>
    /\ Len(recommendations) = 1

\* ------------------------------------------------------------------------
\* C12: the timing input is required, the scaling and memory inputs are
\* optional
\* ------------------------------------------------------------------------

\* A missing or non-JSON file.
C12_Unusable(file) == ~file.exists \/ ~file.json

\* The option as the detector is to treat it: an unusable file is left out.
C12_LeftOut(path) ==
    IF path # None /\ C12_Unusable(path[1]) THEN None ELSE path

\* The bottlenecks of the inputs that remain.
C12_Remaining ==
    LET scaling == C12_LeftOut(args.scaling)
        memory  == C12_LeftOut(args.memory)
    IN  detect_timing_bottlenecks(args.timing.doc, timing_threshold_default)
        \o (IF scaling = None THEN <<>>
            ELSE detect_scaling_bottlenecks(scaling[1].doc,
                                            scaling_threshold_default))
        \o (IF memory = None THEN <<>>
            ELSE detect_memory_bottlenecks(memory[1].doc,
                                           memory_threshold_default))

C12_Warnings ==
    SelectSeq(stderr, LAMBDA line : Has(line, "warning"))

C12_Reports ==
    SelectSeq(stdout, LAMBDA out : ~Has(out.doc, "error"))

\* C12: a missing or non-JSON timing file ends the run with an error, exit
\* status 1 and no bottleneck report; a missing or non-JSON scaling or memory
\* file gives only a warning, and the report is the one the remaining inputs
\* give when that option is not passed.
C12_RequiredAndOptionalInputs ==
    (tool = "detector" /\ pc = "done") =>
        IF C12_Unusable(args.timing)
        THEN /\ exit_code = 1
             /\ C12_Reports = <<>>
             /\ \/ \E i \in 1..Len(stderr) : Has(stderr[i], "error")
                \/ \E i \in 1..Len(stdout) : Has(stdout[i].doc, "error")
        ELSE /\ exit_code = 0
             /\ Len(C12_Warnings)
                   = (IF args.scaling # C12_LeftOut(args.scaling) THEN 1 ELSE 0)
                     + (IF args.memory # C12_LeftOut(args.memory) THEN 1 ELSE 0)
             /\ bottlenecks = C12_Remaining
             /\ recommendations = generate_recommendations(C12_Remaining)
             /\ Len(C12_Reports) = 1
             /\ IF args.json
                THEN C12_Reports[1].doc.results
                        = [bottlenecks |-> C12_Remaining,
                           recommendations |->
                               generate_recommendations(C12_Remaining)]
                ELSE C12_Reports[1].doc
                        = detector_text(C12_Remaining,
                              generate_recommendations(C12_Remaining))

\* ------------------------------------------------------------------------
\* C13: what load_scaling_data accepts
\* ------------------------------------------------------------------------

\* A strictly positive time.
C13_PositiveTime(run) ==
    Has(run, "time") /\ run.time # JsonNull /\ FLt(FZero, run.time)

C13_ValidRun(run) ==
    /\ Has(run, "processors") /\ run.processors > 0
    /\ C13_PositiveTime(run)

\* The first failing check of a run, in the order of the claim.
C13_Problem(run) ==
    IF ~Has(run, "processors") THEN "missing processors"
    ELSE IF ~Has(run, "time") THEN "missing time"
    ELSE IF ~C13_PositiveTime(run) THEN "invalid time"
    ELSE "invalid processors"

C13_Acceptable(doc) ==
    /\ Has(doc, "runs")
    /\ Len(doc.runs) >= 2
    /\ \A i \in 1..Len(doc.runs) : C13_ValidRun(doc.runs[i])

\* The ValueError the claim describes for a document that is not acceptable.
C13_Rejection(doc) ==
    IF ~Has(doc, "runs") THEN Some("JSON must contain 'runs' array")
    ELSE IF Len(doc.runs) < 2 THEN Some("At least 2 runs required")
    ELSE LET first == CHOOSE i \in 1..Len(doc.runs) :
                         /\ ~C13_ValidRun(doc.runs[i])
                         /\ \A j \in 1..(i - 1) : C13_ValidRun(doc.runs[j])
         IN  Some([run |-> first - 1, problem |-> C13_Problem(doc.runs[first])])

\* C13: load_scaling_data returns the runs only if the document has at
\* least 2 runs, each with a strictly positive 'processors' and 'time';
\* for any other document it raises ValueError naming the first offending
\* run by the first failing check (missing processors, missing time,
\* invalid time, invalid processors), the analyzer exits with status 1 and
\* prints no analysis; on the runs it returns, no divisor of
\* compute_strong_scaling or compute_weak_scaling is zero.
C13_LoadScalingData ==
    tool = "scaling" =>
        LET file == args.data
            r    == load_scaling_data(file)
        IN  /\ r.status = "ok" =>
                    /\ file.exists /\ file.json
                    /\ C13_Acceptable(file.doc)
                    /\ r.runs = file.doc.runs
            /\ (file.exists /\ file.json /\ ~C13_Acceptable(file.doc)) =>
                    /\ r.status = "ValueError"
                    /\ r.detail = C13_Rejection(file.doc)
                    /\ pc # "start" =>
                          /\ pc = "done" /\ exit_code = 1
                          /\ analysis = None
                          /\ \A i \in 1..Len(stdout) :
                                 Has(stdout[i].doc, "error")
            /\ pc \in {"loaded", "computed"} \/ (pc = "done" /\ exit_code = 0) =>
                    /\ runs = file.doc.runs
                    /\ \A i \in 1..Len(runs) :
                          /\ runs[i].time.m # 0
                          /\ FromRat(runs[i].processors,
                                     scaling_baseline(runs).processors).m # 0

\* ------------------------------------------------------------------------
\* C14: the category of a timing bottleneck
\* ------------------------------------------------------------------------

\* The words of a phase name: its maximal runs of characters other than a
\* space.
Words(s) ==
    {SubSeq(s, i, j) : <<i, j>> \in
        {w \in (1..Len(s)) \X (1..Len(s)) :
            /\ w[1] <= w[2]
            /\ \A k \in w[1]..w[2] : s[k] # " "
            /\ w[1] = 1 \/ s[w[1] - 1] = " "
            /\ w[2] = Len(s) \/ s[w[2] + 1] = " "}}

\* Some word of the lower-cased name is one of the keywords.
HasKeywordWord(keywords, name) ==
    Words(Lower(name)) \cap Range(keywords) # {}

\* The category and priority by substring, in the fixed precedence.
C14_BySubstring(name) ==
    LET phase == Lower(name) IN
    IF AnyKeyword(solver_keywords, phase)
    THEN [category |-> "solver", priority |-> "high"]
    ELSE IF AnyKeyword(assembly_keywords, phase)
    THEN [category |-> "assembly", priority |-> "high"]
    ELSE IF AnyKeyword(io_keywords, phase)
    THEN [category |-> "io", priority |-> "medium"]
    ELSE [category |-> "general", priority |-> "medium"]

\* C14: the recommendation for a timing bottleneck has exactly one
\* category, found by testing the lower-cased phase name for the solver
\* keywords, else the assembly keywords, else the I/O keywords, else
\* 'general', with priorities high, high, medium, medium; and a phase gets
\* the 'io' category only if it is an I/O phase: a name none of whose words
\* is a keyword is not classified by an accidental substring.
C14_TimingCategory ==
    Recommended =>
        \A i \in 1..Len(bottlenecks) :
            bottlenecks[i].type = "timing" =>
                LET name == bottlenecks[i].phase
                    rec  == recommendations[i]
                IN  /\ rec.category = C14_BySubstring(name).category
                    /\ rec.priority = C14_BySubstring(name).priority
                    /\ rec.category = "io" => HasKeywordWord(io_keywords, name)
                    /\ (~HasKeywordWord(solver_keywords, name)
                        /\ ~HasKeywordWord(assembly_keywords, name)
                        /\ ~HasKeywordWord(io_keywords, name))
                          => rec.category = "general"

\* ------------------------------------------------------------------------
\* C15: the figures of an accepted parameter set
\* ------------------------------------------------------------------------

\* compute_total_memory has returned a profile.
Profiled ==
    /\ tool = "memory"
    /\ pc = "computed" \/ (pc = "done" /\ exit_code = 0)

\* The sum over fields i.. of components * bytes_per_value, defaults 1 and 8.
RECURSIVE C15_BytesPerPoint(_, _)
C15_BytesPerPoint(fields, i) ==
    IF i > Len(fields) THEN PyInt(0)
    ELSE Plus(Times(Get(fields[i].spec, "components", PyInt(1)),
                    Get(fields[i].spec, "bytes_per_value", PyInt(8))),
              C15_BytesPerPoint(fields, i + 1))

C15_Says(what) ==
    \E i \in 1..Len(profile[1].warnings) : profile[1].warnings[i].says = what

\* C15: for an accepted parameter set, mesh_points = nx * ny * nz with a
\* missing dimension counting as 1; the field memory is mesh_points times
\* the sum over fields of components * bytes_per_value (defaults 1 and 8);
\* the solver workspace is mesh_points * workspace_multiplier * 8 (default
\* 5); total = field + solver >= field >= 0; per process = total /
\* processors; and there is at most one warning: 'exceeds available' exactly
\* when available memory is given and total > available, 'high (>80%)'
\* exactly when 0.8 * available < total <= available, none when available
\* memory is not given.
C15_MemoryFigures ==
    Profiled =>
        LET p          == profile[1]
            mesh       == params[1].mesh
            solver     == Get(params[1], "solver", default_solver)
            multiplier == Get(solver, "workspace_multiplier", PyInt(5))
            processors == Get(params[1], "processors", PyInt(1))
            points     == Get(mesh, "nx", PyInt(1)).int
                          * Get(mesh, "ny", PyInt(1)).int
                          * Get(mesh, "nz", PyInt(1)).int
            available  == args.available_gb
        IN  /\ p.mesh_points = points
            /\ p.field_memory_gb
                  = TrueDiv(Times(PyInt(points),
                                  C15_BytesPerPoint(params[1].fields, 1)), GiB)
            /\ p.solver_workspace_gb
                  = TrueDiv(Times(Times(PyInt(points), multiplier), PyInt(8)), GiB)
            /\ p.total_memory_gb
                  = FAdd(p.field_memory_gb, p.solver_workspace_gb)
            /\ FLe(p.field_memory_gb, p.total_memory_gb)
            /\ FLe(FZero, p.field_memory_gb)
            /\ p.per_process_gb
                  = FDiv(p.total_memory_gb, FromInt(processors.int))
            /\ Len(p.warnings) <= 1
            /\ C15_Says("exceeds available memory")
                  <=> (available # None /\ FLt(available[1], p.total_memory_gb))
            /\ C15_Says("is high (>80% of available)")
                  <=> /\ available # None
                      /\ FLt(FMul(FromRat(8, 10), available[1]), p.total_memory_gb)
                      /\ FLe(p.total_memory_gb, available[1])
            /\ available = None => p.warnings = <<>>

\* ------------------------------------------------------------------------
\* C16: invalid parameters
\* ------------------------------------------------------------------------

C16_InvalidMesh(mesh) ==
    \E d \in {"nx", "ny", "nz"} :
        Has(mesh, d) /\ ~(IsInt(mesh[d]) /\ mesh[d].int > 0)

C16_InvalidField(spec) ==
    \/ Has(spec, "components")
          /\ ~(IsInt(spec.components) /\ spec.components.int > 0)
    \/ Has(spec, "bytes_per_value")
          /\ ~(IsNumber(spec.bytes_per_value) /\ Positive(spec.bytes_per_value))

C16_Invalid(p) ==
    \/ C16_InvalidMesh(p.mesh)
    \/ \E i \in 1..Len(p.fields) : C16_InvalidField(p.fields[i].spec)
    \/ Has(p, "processors")
          /\ ~(IsInt(p.processors) /\ p.processors.int > 0)

\* main has reported `error` the way it reports a ValueError: 'Error: ...'
\* on stderr, or the bare message under --json.
C16_ReportedAsError(error) ==
    IF args.json
    THEN stdout = << [format |-> "json", doc |-> [error |-> error]] >>
    ELSE stderr = << [error |-> error] >> /\ stdout = <<>>

\* C16: no profile for invalid parameters. When a mesh dimension, a field's
\* components or processors is not a positive integer, or a field's
\* bytes_per_value is not a positive number, compute_total_memory raises
\* ValueError, which main reports as 'Error: ...' with exit status 1; when
\* 'mesh' or 'fields' is missing, load_parameters raises ValueError listing
\* every missing field.
C16_InvalidParameters ==
    tool = "memory" =>
        /\ LET file == args.params
               r    == load_parameters(file)
               missing == (IF Has(file.doc, "mesh") THEN <<>> ELSE <<"mesh">>)
                          \o (IF Has(file.doc, "fields") THEN <<>>
                              ELSE <<"fields">>)
           IN  (file.exists /\ file.json /\ missing # <<>>) =>
                   /\ r.status = "ValueError"
                   /\ r.detail = Some([missing |-> missing])
                   /\ pc # "start" =>
                         /\ pc = "done" /\ exit_code = 1
                         /\ C16_ReportedAsError("ValueError")
        /\ (params # None /\ C16_Invalid(params[1])) =>
               /\ compute_total_memory(params[1], args.available_gb).status
                     = "ValueError"
               /\ profile = None
               /\ pc # "loaded" =>
                     /\ pc = "done" /\ exit_code = 1
                     /\ C16_ReportedAsError("ValueError")
        /\ Profiled => ~C16_Invalid(params[1])

Init == InitPipeline
Next == PipelineNext
Spec == Init /\ [][Next]_vars
====
